---- MODULE Spec2Model ----
(***************************************************************************)
(* Chat pipeline and memory subsystem of the ontology-aware memory engine. *)
(* Texts are real strings; the Python string operations the services use   *)
(* (lower, in, split, replace, re.findall) are defined on them character   *)
(* by character.                                                           *)
(***************************************************************************)
EXTENDS Integers, Sequences, FiniteSets, TLC

(***************************************************************************)
(* Python string primitives                                                *)
(***************************************************************************)

Min(a, b) == IF a < b THEN a ELSE b

Max(a, b) == IF a > b THEN a ELSE b

CharAt(s, i) == SubSeq(s, i, i)

\* the first of a non-empty set of positions
LeastOf(positions) == CHOOSE j \in positions : \A h \in positions : j <= h

UpperChars == <<"A","B","C","D","E","F","G","H","I","J","K","L","M",
                "N","O","P","Q","R","S","T","U","V","W","X","Y","Z">>

LowerChars == <<"a","b","c","d","e","f","g","h","i","j","k","l","m",
                "n","o","p","q","r","s","t","u","v","w","x","y","z">>

Digits == {"0","1","2","3","4","5","6","7","8","9"}

\* the lower case letter of each upper case letter, and the reverse
LowerOf == [c \in {UpperChars[k] : k \in 1..26} |->
              LowerChars[CHOOSE k \in 1..26 : UpperChars[k] = c]]

UpperOf == [c \in {LowerChars[k] : k \in 1..26} |->
              UpperChars[CHOOSE k \in 1..26 : LowerChars[k] = c]]

RECURSIVE Lower(_)
\* str.lower(), halving the text
Lower(s) ==
  IF Len(s) = 0 THEN ""
  ELSE IF Len(s) = 1 THEN (IF s \in DOMAIN LowerOf THEN LowerOf[s] ELSE s)
  ELSE Lower(SubSeq(s, 1, Len(s) \div 2)) \o Lower(SubSeq(s, Len(s) \div 2 + 1, Len(s)))

RECURSIVE Upper(_)
\* str.upper(), halving the text
Upper(s) ==
  IF Len(s) = 0 THEN ""
  ELSE IF Len(s) = 1 THEN (IF s \in DOMAIN UpperOf THEN UpperOf[s] ELSE s)
  ELSE Upper(SubSeq(s, 1, Len(s) \div 2)) \o Upper(SubSeq(s, Len(s) \div 2 + 1, Len(s)))

\* Python `p in t`
Contains(t, p) ==
  \E i \in 1..(Len(t) - Len(p) + 1) : SubSeq(t, i, i + Len(p) - 1) = p

ContainsAny(t, ps) == \E p \in ps : Contains(t, p)

\* the whitespace str.split() and str.strip() recognise
IsSpace(c) == c \in {" ", "\n", "\t"}

IsDigit(c) == c \in Digits

\* \w of the re module
IsWordChar(c) == c \in Digits \/ c = "_" \/ c \in DOMAIN LowerOf \/ c \in DOMAIN UpperOf

RECURSIVE SplitFrom(_, _)
\* str.split(): the whitespace separated words of s from character i on,
\* one word per step
SplitFrom(s, i) ==
  LET inked == {j \in i..Len(s) : ~IsSpace(CharAt(s, j))}
      Word(b) ==
        LET blank == {j \in b..Len(s) : IsSpace(CharAt(s, j))}
            e == IF blank = {} THEN Len(s) + 1 ELSE LeastOf(blank)
        IN  <<SubSeq(s, b, e - 1)>> \o SplitFrom(s, e)
  IN  IF inked = {} THEN <<>> ELSE Word(LeastOf(inked))

Split(s) == SplitFrom(s, 1)

Range(f) == {f[i] : i \in DOMAIN f}

\* str.strip()
Strip(s) ==
  LET inked == {i \in 1..Len(s) : ~IsSpace(CharAt(s, i))}
  IN  IF inked = {} THEN ""
      ELSE SubSeq(s, CHOOSE i \in inked : \A j \in inked : i <= j,
                     CHOOSE i \in inked : \A j \in inked : i >= j)

RECURSIVE Replace(_, _, _)
\* str.replace(old, new) for a non-empty old: left to right, non overlapping
Replace(s, old, new) ==
  LET hits == {j \in 1..(Len(s) - Len(old) + 1) : SubSeq(s, j, j + Len(old) - 1) = old}
      At(j) == SubSeq(s, 1, j - 1) \o new
               \o Replace(SubSeq(s, j + Len(old), Len(s)), old, new)
  IN  IF old = "" \/ hits = {} THEN s ELSE At(LeastOf(hits))

\* s[:n]
Prefix(s, n) == SubSeq(s, 1, Min(n, Len(s)))

\* number of digits of s starting at character i
RECURSIVE DigitRun(_, _)
DigitRun(s, i) ==
  IF i <= Len(s) /\ IsDigit(CharAt(s, i)) THEN 1 + DigitRun(s, i + 1) ELSE 0

\* \b between characters i-1 and i of s
WordBoundary(s, i) ==
  LET before == i > 1 /\ i - 1 <= Len(s) /\ IsWordChar(CharAt(s, i - 1))
      after  == i >= 1 /\ i <= Len(s) /\ IsWordChar(CharAt(s, i))
  IN  before # after

(***************************************************************************)
(* PIIProtectionService                                                    *)
(***************************************************************************)

NoValue == "<none>"

MASK == "***-***-****"

\* phone_pattern \b\d{3}[-.]?\d{3}[-.]?\d{4}\b tried at character i:
\* the length of the match, 0 when there is none
PhoneMatchLenAt(s, i) ==
  LET IsSep(k) == k <= Len(s) /\ CharAt(s, k) \in {"-", "."}
      j1 == i + 3
      j2 == IF IsSep(j1) THEN j1 + 1 ELSE j1
      j3 == j2 + 3
      j4 == IF IsSep(j3) THEN j3 + 1 ELSE j3
      e  == j4 + 4
      Dig(a, n) == \A k \in a..(a + n - 1) : k <= Len(s) /\ IsDigit(CharAt(s, k))
  IN  IF /\ WordBoundary(s, i)
         /\ Dig(i, 3) /\ Dig(j2, 3) /\ Dig(j4, 4)
         /\ WordBoundary(s, e)
      THEN e - i
      ELSE 0

RECURSIVE PhoneFindAllFrom(_, _)
\* phone_pattern.findall(text): non overlapping matches, left to right
PhoneFindAllFrom(s, i) ==
  LET hits == {j \in i..Len(s) : PhoneMatchLenAt(s, j) > 0}
      Take(j, n) == <<SubSeq(s, j, j + n - 1)>> \o PhoneFindAllFrom(s, j + n)
      Hit(j) == Take(j, PhoneMatchLenAt(s, j))
  IN  IF hits = {} THEN <<>> ELSE Hit(LeastOf(hits))

_extract_purpose(text) ==
  LET text_lower == Lower(text)
  IN  IF ContainsAny(text_lower, {"urgent", "emergency", "alert", "critical"}) THEN "urgent"
      ELSE IF ContainsAny(text_lower, {"contact", "call", "reach", "notify"}) THEN "contact"
      ELSE IF ContainsAny(text_lower, {"reminder", "remind", "notify"}) THEN "reminder"
      ELSE NoValue

detect_pii(text) ==
  LET phone_matches == PhoneFindAllFrom(text, 1)
  IN  [k \in 1..Len(phone_matches) |->
         [original |-> phone_matches[k], masked |-> MASK,
          pii_type |-> "phone", purpose |-> _extract_purpose(text)]]

RECURSIVE mask_pii(_, _)
mask_pii(text, matches) ==
  IF matches = <<>> THEN text
  ELSE mask_pii(Replace(text, Head(matches).original, Head(matches).masked), Tail(matches))

\* the matches handed over always stem from one detect_pii call, so they
\* share one purpose and ", ".join(set(purposes)) has a single element
create_masked_memory_text(original_text, matches) ==
  IF matches = <<>> THEN original_text
  ELSE LET masked_text == mask_pii(original_text, matches)
           purposes == {matches[k].purpose : k \in DOMAIN matches} \ {NoValue}
       IN  IF purposes # {}
           THEN masked_text \o " (for " \o (CHOOSE p \in purposes : TRUE) \o ")"
           ELSE masked_text

(***************************************************************************)
(* Domain store: the seeded rows, in insertion (scan) order, with the      *)
(* columns the services test or report.  No operation of the services      *)
(* writes a domain table.                                                  *)
(***************************************************************************)

customers ==
  << [customer_id |-> "550e8400-0001", name |-> "Gai Media"],
     [customer_id |-> "550e8400-0002", name |-> "PC Boiler"],
     [customer_id |-> "550e8400-0003", name |-> "Kai Media"],
     [customer_id |-> "550e8400-0004", name |-> "Kai Media Europe"],
     [customer_id |-> "550e8400-0005", name |-> "TC Boiler"] >>

sales_orders ==
  << [so_id |-> "660e8400-0001", customer_id |-> "550e8400-0001",
      so_number |-> "SO-1001", title |-> "Album Fulfillment", status |-> "in_fulfillment"],
     [so_id |-> "660e8400-0002", customer_id |-> "550e8400-0002",
      so_number |-> "SO-2002", title |-> "On-site repair", status |-> "approved"],
     [so_id |-> "660e8400-0003", customer_id |-> "550e8400-0003",
      so_number |-> "SO-3003", title |-> "Digital Content Package", status |-> "fulfilled"],
     [so_id |-> "660e8400-0004", customer_id |-> "550e8400-0005",
      so_number |-> "SO-4004", title |-> "Boiler Maintenance", status |-> "draft"] >>

work_orders ==
  << [wo_id |-> "770e8400-0001", so_id |-> "660e8400-0001",
      description |-> "Pick-pack albums", status |-> "queued", technician |-> "Alex"],
     [wo_id |-> "770e8400-0002", so_id |-> "660e8400-0002",
      description |-> "Replace valve", status |-> "in_progress", technician |-> "Bob"],
     [wo_id |-> "770e8400-0003", so_id |-> "660e8400-0003",
      description |-> "Digital packaging", status |-> "done", technician |-> "Carol"],
     [wo_id |-> "770e8400-0004", so_id |-> "660e8400-0004",
      description |-> "Boiler inspection", status |-> "queued", technician |-> "Dave"] >>

invoices ==
  << [invoice_id |-> "880e8400-0001", so_id |-> "660e8400-0001",
      invoice_number |-> "INV-1009", amount |-> 1200, status |-> "open"],
     [invoice_id |-> "880e8400-0002", so_id |-> "660e8400-0002",
      invoice_number |-> "INV-2010", amount |-> 850, status |-> "open"],
     [invoice_id |-> "880e8400-0003", so_id |-> "660e8400-0003",
      invoice_number |-> "INV-3011", amount |-> 2100, status |-> "paid"],
     [invoice_id |-> "880e8400-0004", so_id |-> "660e8400-0004",
      invoice_number |-> "INV-4012", amount |-> 1500, status |-> "open"] >>

payments ==
  << [payment_id |-> "990e8400-0001", invoice_id |-> "880e8400-0003", amount |-> 2100],
     [payment_id |-> "990e8400-0002", invoice_id |-> "880e8400-0001", amount |-> 600] >>

tasks ==
  << [task_id |-> "aa0e8400-0001", customer_id |-> "550e8400-0001",
      title |-> "Investigate shipping SLA for Gai Media",
      body |-> "Check delivery timeframes and customer preferences", status |-> "todo"],
     [task_id |-> "aa0e8400-0002", customer_id |-> "550e8400-0002",
      title |-> "Schedule maintenance visit",
      body |-> "Coordinate with customer for boiler maintenance", status |-> "doing"],
     [task_id |-> "aa0e8400-0003", customer_id |-> "550e8400-0003",
      title |-> "Follow up on payment",
      body |-> "Contact customer about overdue invoice", status |-> "todo"],
     [task_id |-> "aa0e8400-0004", customer_id |-> "550e8400-0005",
      title |-> "Prepare quote for new system",
      body |-> "Create proposal for thermal control upgrade", status |-> "todo"] >>

(***************************************************************************)
(* AliasMappingService                                                     *)
(***************************************************************************)

\* The columns of app.memories: a Memory row has no external_ref
MemoryColumns ==
  {"memory_id", "session_id", "kind", "text", "embedding",
   "importance", "ttl_days", "created_at"}

\* Optional values: None is the empty sequence, a value x is <<x>>
None == <<>>

Some(x) == <<x>>

\* .first() of a select: the first row satisfying Test, None when there is none
First(rows) == IF rows = <<>> THEN None ELSE Some(rows[1])

\* Memory.external_ref[...] in the select raises AttributeError as long as the
\* model declares no such column, and the except branch returns None
get_exact_match_entity(rows, user_id, query_text) ==
  IF "external_ref" \notin MemoryColumns THEN None
  ELSE LET alias_memory ==
             First(SelectSeq(rows, LAMBDA m : /\ m.kind = "semantic"
                                    /\ m.external_ref.type = "alias_mapping"
                                    /\ m.external_ref.alias_text = Lower(query_text)
                                    /\ m.external_ref.user_id = user_id))
       IN  IF alias_memory = None THEN None
           ELSE Some([name |-> alias_memory[1].external_ref.entity_name,
                      id |-> alias_memory[1].external_ref.entity_id,
                      confidence |-> "exact"])

\* the same failing select on Memory.external_ref: the except branch returns
\* the text unchanged
translate_to_english(rows, user_id, foreign_text) ==
  IF "external_ref" \notin MemoryColumns THEN foreign_text
  ELSE LET mapping_memory ==
             First(SelectSeq(rows, LAMBDA m : /\ m.kind = "semantic"
                                    /\ m.external_ref.type = "multilingual_mapping"
                                    /\ m.external_ref.foreign_text = Lower(foreign_text)
                                    /\ m.external_ref.user_id = user_id))
       IN  IF mapping_memory = None THEN foreign_text
           ELSE mapping_memory[1].external_ref.english_text

(***************************************************************************)
(* EntityService                                                           *)
(***************************************************************************)

Entity(session_id, name, type, table, id, confidence) ==
  [session_id |-> session_id, name |-> name, type |-> type, source |-> "db",
   external_ref |-> [table |-> table, id |-> id, confidence |-> confidence]]

RECURSIVE FlatMap(_, _, _)
\* FlatMap(n, F, k): F[k] \o F[k+1] \o ... \o F[n] for a function F on 1..n
FlatMap(n, F, k) == IF k > n THEN <<>> ELSE F[k] \o FlatMap(n, F, k + 1)

Concat(F) == FlatMap(Len(F), F, 1)

_fuzzy_match(name, text) ==
  LET name_words == Range(Split(Lower(name)))
      text_words == Range(Split(Lower(text)))
      intersection == name_words \cap text_words
      text_in_name == \A word \in text_words : Contains(Lower(name), word)
  IN  IF name_words = {} \/ text_words = {} THEN FALSE
      ELSE IF Cardinality(intersection) > 0 /\ text_in_name THEN TRUE
      ELSE 10 * Cardinality(intersection) >= 8 * Cardinality(name_words)

_extract_customer_entities(rows, text, session_id, user_id) ==
  LET english_text == translate_to_english(rows, user_id, text)
      text_lower == Lower(text)
      Hard(key) ==
        Concat([k \in 1..Len(customers) |->
                  IF Contains(Lower(customers[k].name), key)
                  THEN <<Entity(session_id, customers[k].name, "customer",
                                "domain.customers", customers[k].customer_id, "fuzzy")>>
                  ELSE <<>>])
      Check(c, check_text) ==
        IF Contains(check_text, Lower(c.name)) THEN "exact"
        ELSE IF _fuzzy_match(c.name, check_text) THEN "fuzzy"
        ELSE NoValue
      Conf(c) ==
        IF Check(c, Lower(text)) # NoValue THEN Check(c, Lower(text))
        ELSE Check(c, Lower(english_text))
  IN  IF Contains(text_lower, "kai") /\ ~Contains(text_lower, "media")
      THEN Hard("kai media")
      ELSE IF Contains(text_lower, "tc") /\ ~Contains(text_lower, "boiler")
      THEN Hard("tc boiler")
      ELSE Concat([k \in 1..Len(customers) |->
                     IF Conf(customers[k]) # NoValue
                     THEN <<Entity(session_id, customers[k].name, "customer",
                                   "domain.customers", customers[k].customer_id,
                                   Conf(customers[k]))>>
                     ELSE <<>>])

RECURSIVE NumberFindAllFrom(_, _, _, _)
\* re.findall of <prefix>\d{4} with re.IGNORECASE (prefix given in lower case)
NumberFindAllFrom(s, i, prefix, n) ==
  LET hits == {j \in i..Len(s) :
                 /\ j + Len(prefix) + n - 1 <= Len(s)
                 /\ Lower(CharAt(s, j)) = CharAt(prefix, 1)
                 /\ Lower(SubSeq(s, j, j + Len(prefix) - 1)) = prefix
                 /\ \A k \in (j + Len(prefix))..(j + Len(prefix) + n - 1) :
                      IsDigit(CharAt(s, k))}
      Take(j) == <<SubSeq(s, j, j + Len(prefix) + n - 1)>>
                 \o NumberFindAllFrom(s, j + Len(prefix) + n, prefix, n)
  IN  IF hits = {} THEN <<>> ELSE Take(LeastOf(hits))

_extract_order_entities(text, session_id) ==
  LET matches == NumberFindAllFrom(text, 1, "so-", 4)
      Order(match) == First(SelectSeq(sales_orders, LAMBDA o : o.so_number = Upper(match)))
  IN  Concat([k \in 1..Len(matches) |->
                IF Order(matches[k]) # None
                THEN <<Entity(session_id, matches[k], "order", "domain.sales_orders",
                              Order(matches[k])[1].so_id, NoValue)>>
                ELSE <<>>])

_extract_invoice_entities(text, session_id) ==
  LET matches == NumberFindAllFrom(text, 1, "inv-", 4)
      Inv(match) == First(SelectSeq(invoices, LAMBDA o : o.invoice_number = Upper(match)))
  IN  Concat([k \in 1..Len(matches) |->
                IF Inv(matches[k]) # None
                THEN <<Entity(session_id, matches[k], "invoice", "domain.invoices",
                              Inv(matches[k])[1].invoice_id, NoValue)>>
                ELSE <<>>])

task_keywords == <<"task", "todo", "issue", "problem", "support">>

_extract_task_entities(text, session_id) ==
  Concat([k \in 1..Len(task_keywords) |->
            IF Contains(Lower(text), task_keywords[k])
            THEN Concat([j \in 1..Len(tasks) |->
                           IF \/ Contains(Lower(tasks[j].title), task_keywords[k])
                              \/ Contains(Lower(tasks[j].body), task_keywords[k])
                           THEN <<Entity(session_id, tasks[j].title, "task",
                                         "domain.tasks", tasks[j].task_id, NoValue)>>
                           ELSE <<>>])
            ELSE <<>>])

\* a literal (lower case) matched at character i under re.IGNORECASE:
\* the position after the match, 0 when there is none (or i = 0)
LitEnd(s, i, lit) ==
  IF /\ i > 0 /\ i + Len(lit) - 1 <= Len(s)
     /\ Lower(CharAt(s, i)) = CharAt(lit, 1)
     /\ Lower(SubSeq(s, i, i + Len(lit) - 1)) = lit
  THEN i + Len(lit)
  ELSE 0

RECURSIVE SpaceRun(_, _)
SpaceRun(s, i) == IF i <= Len(s) /\ IsSpace(CharAt(s, i)) THEN 1 + SpaceRun(s, i + 1) ELSE 0

\* \s+ matched at character i
WsEnd(s, i) == IF i > 0 /\ SpaceRun(s, i) > 0 THEN i + SpaceRun(s, i) ELSE 0

\* work_order_patterns[p] matched at character i: the position after the
\* match, 0 when there is none
WorkOrderPatternEnd(p, s, i) ==
  CASE p = 1 -> \* pick-pack\s+(?:work\s+)?order
         LET a == WsEnd(s, LitEnd(s, i, "pick-pack"))
             withWork == LitEnd(s, WsEnd(s, LitEnd(s, a, "work")), "order")
         IN  IF withWork > 0 THEN withWork ELSE LitEnd(s, a, "order")
    [] p = 2 -> \* pick-pack\s+albums?
         LET a == LitEnd(s, WsEnd(s, LitEnd(s, i, "pick-pack")), "album")
         IN  IF LitEnd(s, a, "s") > 0 THEN a + 1 ELSE a
    [] p = 3 -> LitEnd(s, WsEnd(s, LitEnd(s, i, "work")), "order")
    [] p = 4 -> LitEnd(s, WsEnd(s, LitEnd(s, i, "pick")), "pack")
    [] p = 5 -> LitEnd(s, WsEnd(s, LitEnd(s, i, "album")), "fulfillment")

NumWorkOrderPatterns == 5

RECURSIVE WorkOrderFindAllFrom(_, _, _)
WorkOrderFindAllFrom(p, s, i) ==
  LET hits == {j \in i..Len(s) : WorkOrderPatternEnd(p, s, j) > 0}
      Take(j, e) == <<SubSeq(s, j, e - 1)>> \o WorkOrderFindAllFrom(p, s, e)
      Hit(j) == Take(j, WorkOrderPatternEnd(p, s, j))
  IN  IF hits = {} THEN <<>> ELSE Hit(LeastOf(hits))

_extract_work_order_entities(text, session_id) ==
  LET Linked(match, wo) ==
        IF wo # None
        THEN <<Entity(session_id, match, "work_order", "domain.work_orders",
                      wo[1].wo_id, NoValue)>>
        ELSE <<>>
      WO(match) ==
        First(SelectSeq(work_orders,
              LAMBDA w : Contains(Lower(w.description), Lower(match))))
      Each(matches) ==
        Concat([k \in 1..Len(matches) |-> Linked(matches[k], WO(matches[k]))])
  IN  Concat([p \in 1..NumWorkOrderPatterns |-> Each(WorkOrderFindAllFrom(p, text, 1))])

\* rows: the app.memories table the alias lookups read
extract_entities(rows, text, session_id, user_id) ==
  LET exact_match == get_exact_match_entity(rows, user_id, text)
  IN  IF exact_match # None
      THEN <<[session_id |-> NoValue, name |-> exact_match[1].name, type |-> "customer",
              source |-> NoValue,
              external_ref |-> [table |-> "domain.customers", id |-> exact_match[1].id,
                                confidence |-> "exact"]]>>
      ELSE _extract_customer_entities(rows, text, session_id, user_id)
           \o _extract_order_entities(text, session_id)
           \o _extract_invoice_entities(text, session_id)
           \o _extract_task_entities(text, session_id)
           \o _extract_work_order_entities(text, session_id)

\* the _link_*_entity functions: a found record replaces external_ref by
\* {table, id}, which drops the confidence key
LinkTo(entity, table, row, idField) ==
  IF row = None THEN entity
  ELSE [entity EXCEPT !.external_ref = [table |-> table, id |-> row[1][idField],
                                        confidence |-> NoValue],
                      !.source = "db"]

_link_customer_entity(entity) ==
  LinkTo(entity, "domain.customers",
         First(SelectSeq(customers, LAMBDA c : c.name = entity.name)), "customer_id")

_link_order_entity(entity) ==
  LinkTo(entity, "domain.sales_orders",
         First(SelectSeq(sales_orders, LAMBDA o : o.so_number = entity.name)), "so_id")

_link_invoice_entity(entity) ==
  LinkTo(entity, "domain.invoices",
         First(SelectSeq(invoices, LAMBDA v : v.invoice_number = entity.name)), "invoice_id")

_link_task_entity(entity) ==
  LinkTo(entity, "domain.tasks",
         First(SelectSeq(tasks, LAMBDA t : t.title = entity.name)), "task_id")

link_entities_to_domain(entities) ==
  [k \in 1..Len(entities) |->
     CASE entities[k].type = "customer" -> _link_customer_entity(entities[k])
       [] entities[k].type = "order" -> _link_order_entity(entities[k])
       [] entities[k].type = "invoice" -> _link_invoice_entity(entities[k])
       [] entities[k].type = "task" -> _link_task_entity(entities[k])
       [] OTHER -> entities[k]]

(***************************************************************************)
(* MemoryService.  Importances are hundredths (0.5 is 50), instants are    *)
(* whole days, memory_id is the position of the row in app.memories.       *)
(***************************************************************************)

Kinds == {"episodic", "semantic", "profile", "commitment", "todo"}

\* NOT NULL and CHECK constraints of app.memories
MemoryRowOK(row) ==
  /\ row.session_id # NoValue
  /\ row.kind \in Kinds
  /\ row.importance >= 0 /\ row.importance <= 100

Memory(memory_id, session_id, kind, text, embedding, importance, ttl_days, created_at) ==
  [memory_id |-> memory_id, session_id |-> session_id, kind |-> kind, text |-> text,
   embedding |-> embedding, importance |-> importance, ttl_days |-> ttl_days,
   created_at |-> created_at]

_is_similar_memory(text1, text2) ==
  LET text1_clean == Strip(Lower(text1))
      text2_clean == Strip(Lower(text2))
      words1 == Range(Split(text1_clean))
      words2 == Range(Split(text2_clean))
  IN  IF text1_clean = text2_clean THEN TRUE
      ELSE IF /\ Len(text1_clean) > 20 /\ Len(text2_clean) > 20
              /\ (Contains(text2_clean, text1_clean) \/ Contains(text1_clean, text2_clean))
      THEN TRUE
      ELSE IF words1 # {} /\ words2 # {}
      THEN 10 * Cardinality(words1 \cap words2) > 8 * Cardinality(words1 \cup words2)
      ELSE FALSE

\* existing.importance = importance; commit: raises on the importance CHECK
RaiseImportance_keep(rows, id, importance) ==
  [rows |-> rows, memory_id |-> id, raised |-> FALSE]

RaiseImportance(rows, id, importance) ==
  IF importance > rows[id].importance
  THEN IF importance <= 100
       THEN [rows |-> [rows EXCEPT ![id].importance = importance],
             memory_id |-> id, raised |-> FALSE]
       ELSE [rows |-> rows, memory_id |-> 0, raised |-> TRUE]
  ELSE [rows |-> rows, memory_id |-> id, raised |-> FALSE]

\* the exact-duplicate lookup of create_memory
ExistingMemory(rows, text, session_id) ==
  First(SelectSeq(rows, LAMBDA m : m.text = text /\ m.session_id = session_id))

\* the cross-session lookup of create_memory for semantic memories
SimilarMemory(rows, text) ==
  First(SelectSeq(rows, LAMBDA m : /\ m.kind = "semantic"
                         /\ Contains(m.text, Prefix(text, 50))
                         /\ _is_similar_memory(text, m.text)))

\* rows: app.memories before the call; the result holds the table after it,
\* the memory_id of the returned row and whether the call raised
create_memory(rows, now, session_id, kind, text0, embedding, importance, ttl_days, pii_matches) ==
  LET Insert(memory) ==
        IF MemoryRowOK(memory)
        THEN [rows |-> Append(rows, memory), memory_id |-> memory.memory_id,
              raised |-> FALSE]
        ELSE [rows |-> rows, memory_id |-> 0, raised |-> TRUE]
      Dedup(text, existing, similar) ==
        IF existing # None THEN RaiseImportance(rows, existing[1].memory_id, importance)
        ELSE IF similar # None THEN RaiseImportance(rows, similar[1].memory_id, importance)
        ELSE Insert(Memory(Len(rows) + 1, session_id, kind, text, embedding, importance,
                           ttl_days, now))
      Create(text) ==
        Dedup(text, ExistingMemory(rows, text, session_id),
              IF kind = "semantic" THEN SimilarMemory(rows, text) ELSE None)
  IN  Create(IF pii_matches # <<>>
             THEN create_masked_memory_text(text0, pii_matches)
             ELSE text0)

\* a score is the fraction num / den with den > 0
Frac(num, den) == [num |-> num, den |-> den]

RECURSIVE GCD(_, _)
GCD(a, b) == IF b = 0 THEN a ELSE GCD(b, a % b)

\* x > y, cross-multiplied after cancelling the common factor of the
\* denominators
FracGreater(x, y) ==
  LET g == GCD(x.den, y.den)
  IN  x.num * (y.den \div g) > y.num * (x.den \div g)

_cosine_similarity(a, b) ==
  LET Dot(x, y) ==
        LET n == Min(Len(x), Len(y))
            F[k \in 0..n] == IF k = 0 THEN 0 ELSE F[k - 1] + x[k] * y[k]
        IN  F[n]
      \* the vectors have integral magnitudes
      Sqrt(n) == CHOOSE r \in 0..n : r * r = n
      magnitude_a == Sqrt(Dot(a, a))
      magnitude_b == Sqrt(Dot(b, b))
  IN  IF magnitude_a = 0 \/ magnitude_b = 0 THEN Frac(0, 1)
      ELSE Frac(Dot(a, b), magnitude_a * magnitude_b)

\* max(0.1, 1.0 - days_old / 365.0)
_calculate_recency_weight(created_at, now) ==
  Frac(Max(365, 3650 - 10 * (now - created_at)), 3650)

RECURSIVE InsertSorted(_, _)
\* stable insertion of x behind the elements that do not score lower
InsertSorted(sorted, x) ==
  IF sorted = <<>> THEN <<x>>
  ELSE IF FracGreater(x.similarity, Head(sorted).similarity)
       THEN <<x>> \o sorted
       ELSE <<Head(sorted)>> \o InsertSorted(Tail(sorted), x)

RECURSIVE SortBySimilarity(_)
\* list.sort(key=similarity, reverse=True): descending and stable
SortBySimilarity(results) ==
  IF results = <<>> THEN <<>>
  ELSE InsertSorted(SortBySimilarity(SubSeq(results, 1, Len(results) - 1)),
                    results[Len(results)])

MemoryRetrievalResult(memory, similarity) ==
  [memory_id |-> memory.memory_id, text |-> memory.text, kind |-> memory.kind,
   similarity |-> similarity, importance |-> memory.importance,
   created_at |-> memory.created_at]

retrieve_memories_session(rows, now, query_embedding, user_id, session_id, kind, limit) ==
  LET mine == SelectSeq(rows, LAMBDA m : /\ m.session_id = session_id
                                         /\ (kind = NoValue \/ m.kind = kind)
                                         /\ Len(m.embedding) > 0)
      results == [k \in 1..Len(mine) |->
                    MemoryRetrievalResult(
                      mine[k], _cosine_similarity(query_embedding, mine[k].embedding))]
  IN  SubSeq(SortBySimilarity(results), 1, Min(limit, Len(results)))

\* user_id and session_id are accepted and not used; kind = NoValue means no
\* kind filter
retrieve_memories(rows, now, query_embedding, user_id, session_id, kind, limit) ==
  LET memories == SelectSeq(rows, LAMBDA m : kind = NoValue \/ m.kind = kind)
      withEmbedding == SelectSeq(memories, LAMBDA m : Len(m.embedding) > 0)
      Score(m) ==
        LET similarity == _cosine_similarity(query_embedding, m.embedding)
            recency_weight == _calculate_recency_weight(m.created_at, now)
        IN  Frac(similarity.num * m.importance * recency_weight.num,
                 similarity.den * 100 * recency_weight.den)
      results == [k \in 1..Len(withEmbedding) |->
                    MemoryRetrievalResult(withEmbedding[k], Score(withEmbedding[k]))]
  IN  SubSeq(SortBySimilarity(results), 1, Min(limit, Len(results)))

\* select(Memory).order_by(created_at.desc()).limit(limit); user_id is not used
get_user_memories(rows, user_id, limit) ==
  [k \in 1..Min(limit, Len(rows)) |-> rows[Len(rows) + 1 - k]]

(***************************************************************************)
(* MemoryService: consolidation                                            *)
(***************************************************************************)

\* the memories created within the last 30 days
RecentMemories(rows, now) == SelectSeq(rows, LAMBDA m : m.created_at >= now - 30)

_extract_customer_from_memory(memory) ==
  LET text_lower == Lower(memory.text)
  IN  IF Contains(text_lower, "kai media") THEN "kai media"
      ELSE IF Contains(text_lower, "tc boiler") THEN "tc boiler"
      ELSE IF Contains(text_lower, "john gai media") THEN "john gai media"
      ELSE IF Contains(text_lower, "kai") THEN "kai media"
      ELSE IF Contains(text_lower, "tc") THEN "tc boiler"
      ELSE IF Contains(text_lower, "john") THEN "john gai media"
      ELSE NoValue

_is_stale_preference(memory, now) ==
  /\ memory.kind = "semantic"
  /\ ContainsAny(Lower(memory.text),
                 {"prefer", "like", "delivery", "payment", "terms", "remember"})
  /\ (now - memory.created_at > 90 \/ memory.importance < 70)

_has_sufficient_customer_context(rows, now, memory) ==
  LET customer == _extract_customer_from_memory(memory)
  IN  /\ customer # NoValue
      /\ Len(SelectSeq(RecentMemories(rows, now),
                       LAMBDA m : Contains(m.text, customer))) >= 3

_is_task_completion(memory) ==
  ContainsAny(Lower(memory.text),
              {"completed", "done", "finished", "resolved", "closed", "marked as done"})

_should_trigger_consolidation(rows, now, user_id) ==
  LET recent_memories == RecentMemories(rows, now)
  IN  /\ recent_memories # <<>>
      /\ \/ \E k \in 1..Len(recent_memories) :
              ContainsAny(Lower(recent_memories[k].text),
                          {"tc boiler", "kai media", "net15", "payment plan",
                           "rush work order"})
         \/ \E k \in 1..Len(recent_memories) :
              \/ _is_stale_preference(recent_memories[k], now)
              \/ _has_sufficient_customer_context(rows, now, recent_memories[k])
              \/ _is_task_completion(recent_memories[k])

\* position of the first occurrence of sep in s, 0 when there is none
Find(s, sep) ==
  IF Contains(s, sep)
  THEN CHOOSE i \in 1..(Len(s) - Len(sep) + 1) :
         /\ SubSeq(s, i, i + Len(sep) - 1) = sep
         /\ \A j \in 1..(i - 1) : SubSeq(s, j, j + Len(sep) - 1) # sep
  ELSE 0

\* s.split(sep)[1] for an s that contains sep
SplitSecond(s, sep) ==
  LET rest == SubSeq(s, Find(s, sep) + Len(sep), Len(s))
  IN  IF Contains(rest, sep) THEN SubSeq(rest, 1, Find(rest, sep) - 1) ELSE rest

time_words == <<"today", "yesterday", "just", "recently", "now", "sent", "drafted", "created">>

RECURSIVE RemoveWords(_, _)
RemoveWords(text, words) ==
  IF words = <<>> THEN text ELSE RemoveWords(Replace(text, Head(words), ""), Tail(words))

_extract_semantic_from_episodic(episodic_text) ==
  LET text == RemoveWords(Lower(episodic_text), time_words)
  IN  IF Contains(text, "prefers")
      THEN "Customer prefers " \o Strip(SplitSecond(text, "prefers"))
      ELSE IF Contains(text, "likes")
      THEN "Customer likes " \o Strip(SplitSecond(text, "likes"))
      ELSE IF Contains(text, "dislikes")
      THEN "Customer dislikes " \o Strip(SplitSecond(text, "dislikes"))
      ELSE NoValue

pattern_words == {"prefers", "likes", "dislikes", "always", "never"}

RECURSIVE PromoteFrom(_, _, _, _)
\* the loop of _process_episodic_memories from the k-th episodic memory on
PromoteFrom(rows, now, episodic_memories, k) ==
  LET Continue(created) ==
        IF created.raised THEN [rows |-> rows, raised |-> TRUE]
        ELSE PromoteFrom(created.rows, now, episodic_memories, k + 1)
      Promote(memory, semantic_text) ==
        IF /\ ContainsAny(Lower(memory.text), pattern_words)
           /\ \E j \in 1..Len(episodic_memories) :
                /\ episodic_memories[j].memory_id # memory.memory_id
                /\ ContainsAny(Lower(episodic_memories[j].text), pattern_words)
           /\ semantic_text # NoValue
           /\ semantic_text # ""
        THEN Continue(create_memory(rows, now, memory.session_id, "semantic",
                                    semantic_text, <<>>, 90, None, <<>>))
        ELSE PromoteFrom(rows, now, episodic_memories, k + 1)
  IN  IF k > Len(episodic_memories) THEN [rows |-> rows, raised |-> FALSE]
      ELSE Promote(episodic_memories[k],
                   _extract_semantic_from_episodic(episodic_memories[k].text))

_process_episodic_memories(rows, now, memories) ==
  PromoteFrom(rows, now, SelectSeq(memories, LAMBDA m : m.kind = "episodic"), 1)

RECURSIVE Title(_, _)
\* str.title() from character i on: a letter that follows a non-letter is
\* upper case, every other one lower case
Title(s, i) ==
  LET IsLetter(c) == c \in DOMAIN LowerOf \/ c \in DOMAIN UpperOf
  IN  IF i > Len(s) THEN ""
      ELSE (IF i > 1 /\ IsLetter(CharAt(s, i - 1))
            THEN Lower(CharAt(s, i))
            ELSE Upper(CharAt(s, i))) \o Title(s, i + 1)

RECURSIVE Join(_, _)
\* sep.join(parts)
Join(parts, sep) ==
  IF parts = <<>> THEN ""
  ELSE IF Len(parts) = 1 THEN parts[1]
  ELSE parts[1] \o sep \o Join(Tail(parts), sep)

RECURSIVE KeyInfoLoop(_, _, _, _, _)
\* one of the four loops of _extract_customer_key_info: an item containing
\* stopKey appends stopInfo and ends the loop; an item containing nextKey
\* appends nextInfo (followed by the item when withItem) and, when
\* nextBreaks, ends the loop
KeyInfoLoop(items, stopKey, stopInfo, next, k) ==
  IF k > Len(items) THEN <<>>
  ELSE IF Contains(Lower(items[k]), stopKey) THEN <<stopInfo>>
  ELSE IF Contains(Lower(items[k]), next.key)
       THEN IF next.breaks THEN <<next.info>>
            ELSE <<next.info \o items[k]>> \o KeyInfoLoop(items, stopKey, stopInfo, next, k + 1)
  ELSE KeyInfoLoop(items, stopKey, stopInfo, next, k + 1)

_extract_customer_key_info(customer, memories) ==
  LET Texts(keys) ==
        LET sel == SelectSeq(memories, LAMBDA m : ContainsAny(Lower(m.text), keys))
        IN  [k \in 1..Len(sel) |-> sel[k].text]
      terms == Texts({"net", "terms", "payment", "agreed"})
      orders == Texts({"so-", "work order", "wo-", "rush"})
      payment_info == Texts({"payment plan", "monthly", "$", "pay", "500"})
      preferences == Texts({"prefer", "like", "delivery", "friday", "thursday", "ach"})
      customer_info ==
        KeyInfoLoop(terms, "net15", "Terms: NET15",
                    [key |-> "net", info |-> "Terms: ", breaks |-> FALSE], 1)
        \o KeyInfoLoop(orders, "so-2002", "Orders: Rush WO for SO-2002",
                       [key |-> "so-", info |-> "Orders: ", breaks |-> FALSE], 1)
        \o KeyInfoLoop(payment_info, "500", "Payments: $500/month plan",
                       [key |-> "payment plan", info |-> "Payments: ", breaks |-> FALSE], 1)
        \o KeyInfoLoop(preferences, "ach", "Preferences: ACH payments",
                       [key |-> "friday", info |-> "Preferences: Friday delivery",
                        breaks |-> TRUE], 1)
  IN  Join(customer_info, "; ")

RECURSIVE GroupKeys(_, _, _)
\* the keys of customer_groups in insertion order
GroupKeys(memories, k, seen) ==
  IF k > Len(memories) THEN seen
  ELSE LET customer == _extract_customer_from_memory(memories[k])
       IN  IF customer # NoValue /\ customer \notin Range(seen)
           THEN GroupKeys(memories, k + 1, Append(seen, customer))
           ELSE GroupKeys(memories, k + 1, seen)

_generate_smart_summary(user_id, memories) ==
  LET Group(customer) ==
        SelectSeq(memories, LAMBDA m : _extract_customer_from_memory(m) = customer)
      Part(customer, customer_summary) ==
        IF customer_summary # ""
        THEN <<Title(customer, 1) \o ": " \o customer_summary>>
        ELSE <<>>
      generic == "Memory consolidation for user " \o user_id \o ": "
                 \o ToString(Len(memories)) \o " memories processed"
      Summary(groups, summary_parts) ==
        IF groups = <<>> THEN generic
        ELSE IF summary_parts # <<>>
        THEN "Customer Summary (" \o ToString(Len(groups)) \o " customers): "
             \o Join(summary_parts, "; ")
        ELSE generic
      Parts(groups) ==
        Summary(groups,
                Concat([k \in 1..Len(groups) |->
                          Part(groups[k],
                               _extract_customer_key_info(groups[k], Group(groups[k])))]))
  IN  Parts(GroupKeys(memories, 1, <<>>))

MemorySummary(summary_id, user_id, session_window, summary, created_at) ==
  [summary_id |-> summary_id, user_id |-> user_id, session_window |-> session_window,
   summary |-> summary, embedding |-> <<>>, created_at |-> created_at]

\* rows: app.memories, sums: app.memory_summaries; the result holds both
\* tables after the call and the returned summary (None for a None return)
consolidate_memories(rows, sums, now, user_id, session_window, force) ==
  LET unchanged == [rows |-> rows, summaries |-> sums, summary |-> None,
                    raised |-> FALSE]
      Write(processed, existing_summary, summary_text) ==
        IF processed.raised THEN [unchanged EXCEPT !.raised = TRUE]
        ELSE IF existing_summary # None
        THEN [rows |-> processed.rows,
              summaries |-> [sums EXCEPT ![existing_summary[1].summary_id].summary =
                                           summary_text,
                                         ![existing_summary[1].summary_id].created_at = now],
              summary |-> Some(existing_summary[1].summary_id), raised |-> FALSE]
        ELSE [rows |-> processed.rows,
              summaries |-> Append(sums, MemorySummary(Len(sums) + 1, user_id,
                                                       session_window, summary_text, now)),
              summary |-> Some(Len(sums) + 1), raised |-> FALSE]
      Merge(memories) ==
        IF memories = <<>> THEN unchanged
        ELSE Write(_process_episodic_memories(rows, now, memories),
                   First(SelectSeq(sums, LAMBDA x : /\ x.user_id = user_id
                                                    /\ x.session_window = session_window)),
                   _generate_smart_summary(user_id, memories))
  IN  IF ~force /\ ~_should_trigger_consolidation(rows, now, user_id) THEN unchanged
      ELSE Merge(RecentMemories(rows, now))

\* POST /consolidate/: the route handler.  The body of its try block ends in
\* a response or in an exception; HTTPException is an Exception, so the
\* handler's except clause catches the 404 it raised itself and raises a 500
post_consolidate(rows, sums, now, user_id) ==
  LET Handle(out) ==
        LET raised_in_try == IF out.raised THEN Some(500)
                             ELSE IF out.summary = None THEN Some(404)
                             ELSE None
        IN  [rows |-> out.rows, summaries |-> out.summaries,
             status_code |-> IF raised_in_try # None THEN 500 ELSE 200,
             summary_id |-> IF raised_in_try # None THEN None ELSE out.summary,
             not_found |-> raised_in_try = Some(404)]
  IN  Handle(consolidate_memories(rows, sums, now, user_id, 3, FALSE))

(***************************************************************************)
(* EmbeddingService.  The provider (or the md5 mock that replaces it on    *)
(* failure) is a fixed function from texts to vectors; here the vectors    *)
(* are two-dimensional with integral magnitudes and the text is hashed     *)
(* into them by its length.                                                *)
(***************************************************************************)

EmbeddingVectors == << <<1, 0>>, <<0, 1>>, <<3, 4>> >>

generate_embedding(text) == EmbeddingVectors[(Len(text) % Len(EmbeddingVectors)) + 1]

(***************************************************************************)
(* AliasMappingService.store_alias_mapping                                 *)
(***************************************************************************)

\* Memory(...) is built without session_id and the external_ref keyword is
\* not a field of the model; a failed commit is rolled back and reported
store_alias_mapping_insert(rows, now, user_id, alias_text, entity_name, entity_id) ==
  [rows |-> Append(rows,
                   Memory(Len(rows) + 1, "00000000-0000-0000-0000-000000000000", "semantic",
                          "Alias mapping: '" \o alias_text \o "' refers to '" \o entity_name
                          \o "' (ID: " \o entity_id \o ")",
                          <<1, 0>>, 80, None, now)),
   ok |-> TRUE]

store_alias_mapping(rows, now, user_id, alias_text, entity_name, entity_id) ==
  LET alias_memory ==
        Memory(Len(rows) + 1, NoValue, "semantic",
               "Alias mapping: '" \o alias_text \o "' refers to '" \o entity_name
               \o "' (ID: " \o entity_id \o ")",
               generate_embedding(alias_text \o " " \o entity_name), 80, None, now)
  IN  IF MemoryRowOK(alias_memory)
      THEN [rows |-> Append(rows, alias_memory), ok |-> TRUE]
      ELSE [rows |-> rows, ok |-> FALSE]

(***************************************************************************)
(* DisambiguationService.  Scores are hundredths.                          *)
(***************************************************************************)

clarification_keywords ==
  {"clarify", "which one", "multiple matches", "please choose",
   "found multiple possible", "please respond with the number"}

\* conversation_history: the messages [role, content] in chronological order
_is_clarification_response(conversation_history) ==
  LET assistant == SelectSeq(conversation_history, LAMBDA msg : msg.role = "assistant")
      last_assistant_msg == assistant[Len(assistant)].content
  IN  /\ Len(conversation_history) >= 2
      /\ assistant # <<>>
      /\ last_assistant_msg # ""
      /\ ContainsAny(Lower(last_assistant_msg), clarification_keywords)

\* external_ref.get('confidence', 'exact')
_calculate_entity_score(entity) ==
  LET confidence == IF entity.external_ref.confidence = NoValue
                    THEN "exact"
                    ELSE entity.external_ref.confidence
  IN  IF confidence = "exact" THEN 100
      ELSE IF confidence = "fuzzy" THEN 80
      ELSE 50

\* None stands for the IndexError of candidates[0] on an empty list
_parse_user_selection(user_response, candidates) ==
  LET response_lower == Lower(user_response)
      response_words == Split(response_lower)
      Idx == 1..Len(candidates)
      ByNumber(i) == Contains(response_lower, ToString(i))
      ByName(i) == Contains(response_lower, Lower(candidates[i].name))
      ByWords(i) ==
        LET entity_words == Split(Lower(candidates[i].name))
            matches == Cardinality({k \in 1..Len(entity_words) :
                                      entity_words[k] \in Range(response_words)})
        IN  2 * matches >= Len(entity_words)
      FirstOf(P(_)) == CHOOSE i \in Idx : P(i) /\ \A j \in 1..(i - 1) : ~P(j)
  IN  IF \E i \in Idx : ByNumber(i) THEN Some(candidates[FirstOf(ByNumber)])
      ELSE IF \E i \in Idx : ByName(i) THEN Some(candidates[FirstOf(ByName)])
      ELSE IF \E i \in Idx : ByWords(i) THEN Some(candidates[FirstOf(ByWords)])
      ELSE IF candidates # <<>> THEN Some(candidates[1])
      ELSE None

_create_exact_match_alias(rows, now, user_input, selected_entity, user_id) ==
  store_alias_mapping(rows, now, user_id, user_input, selected_entity.name,
                      selected_entity.external_ref.id).rows

DisambiguationResult(needed, selected, candidates, scores, rows, raised) ==
  [needed |-> needed, selected |-> selected, candidates |-> candidates,
   scores |-> scores, rows |-> rows, raised |-> raised]

_process_clarification_from_history(rows, now, user_message, entities, session_id, user_id) ==
  LET selected_entity == _parse_user_selection(user_message, entities)
  IN  IF selected_entity = None
      THEN DisambiguationResult(FALSE, None, <<>>, <<>>, rows, TRUE)
      ELSE DisambiguationResult(
             FALSE, selected_entity, <<>>, <<>>,
             _create_exact_match_alias(rows, now, user_message, selected_entity[1],
                                       user_id),
             FALSE)

\* rows: app.memories, which the alias store writes; the result carries the
\* table after the call and whether the call raised
decide_disambiguation(rows, now, entities, conversation_history, user_message, session_id, user_id) ==
  LET scores == [k \in 1..Len(entities) |-> _calculate_entity_score(entities[k])]
      max_score == CHOOSE x \in Range(scores) : \A y \in Range(scores) : y <= x
      top == CHOOSE k \in 1..Len(scores) :
               scores[k] = max_score /\ \A j \in 1..(k - 1) : scores[j] # max_score
      \* sorted(scores, reverse=True)[1]
      second_max ==
        CHOOSE x \in Range(scores) :
          \E k \in 1..Len(scores) :
            /\ k # top /\ scores[k] = x
            /\ \A j \in 1..Len(scores) : j # top => scores[j] <= x
      score_difference == max_score - second_max
  IN  IF conversation_history # <<>> /\ _is_clarification_response(conversation_history)
      THEN _process_clarification_from_history(rows, now, user_message, entities,
                                               session_id, user_id)
      ELSE IF entities = <<>>
      THEN DisambiguationResult(FALSE, None, <<>>, <<>>, rows, FALSE)
      ELSE IF Len(entities) = 1
      THEN DisambiguationResult(FALSE, Some(entities[1]), <<>>, <<>>, rows, FALSE)
      ELSE IF score_difference > 5
      THEN DisambiguationResult(FALSE, Some(entities[top]), <<>>, <<>>, rows, FALSE)
      ELSE DisambiguationResult(TRUE, None, entities, scores, rows, FALSE)

(***************************************************************************)
(* RetrievalService.  Relevance scores are hundredths.                     *)
(***************************************************************************)

DomainFact(table, id, data, relevance_score) ==
  [table |-> table, id |-> id, data |-> data, relevance_score |-> relevance_score]

SalesOrderData(so) == [so_number |-> so.so_number, title |-> so.title, status |-> so.status]

WorkOrderData(wo) ==
  [description |-> wo.description, status |-> wo.status, technician |-> wo.technician]

InvoiceData(inv) ==
  [invoice_number |-> inv.invoice_number, amount |-> inv.amount, status |-> inv.status]

\* the so_id values of the sales orders of a customer
OrdersOf(customer_id) ==
  {sales_orders[k].so_id : k \in {j \in 1..Len(sales_orders) :
                                    sales_orders[j].customer_id = customer_id}}

_get_customer_facts(customer_id) ==
  LET customer == First(SelectSeq(customers, LAMBDA c : c.customer_id = customer_id))
      orders == SelectSeq(sales_orders, LAMBDA so : so.customer_id = customer_id)
      open == SelectSeq(invoices, LAMBDA inv : /\ inv.so_id \in OrdersOf(customer_id)
                                               /\ inv.status = "open")
  IN  IF customer = None THEN <<>>
      ELSE <<DomainFact("customers", customer_id, [name |-> customer[1].name], 100)>>
           \o [k \in 1..Len(orders) |->
                 DomainFact("sales_orders", orders[k].so_id, SalesOrderData(orders[k]), 80)]
           \o [k \in 1..Len(open) |->
                 DomainFact("invoices", open[k].invoice_id, InvoiceData(open[k]), 90)]

_get_sales_order_facts(so_id) ==
  LET sales_order == First(SelectSeq(sales_orders, LAMBDA so : so.so_id = so_id))
      wos == SelectSeq(work_orders, LAMBDA wo : wo.so_id = so_id)
  IN  IF sales_order = None THEN <<>>
      ELSE <<DomainFact("sales_orders", so_id, SalesOrderData(sales_order[1]), 100)>>
           \o [k \in 1..Len(wos) |->
                 DomainFact("work_orders", wos[k].wo_id, WorkOrderData(wos[k]), 80)]

RECURSIVE SumAmounts(_)
SumAmounts(rows) == IF rows = <<>> THEN 0 ELSE Head(rows).amount + SumAmounts(Tail(rows))

_get_invoice_facts(invoice_id) ==
  LET invoice == First(SelectSeq(invoices, LAMBDA inv : inv.invoice_id = invoice_id))
      paid == SelectSeq(payments, LAMBDA pay : pay.invoice_id = invoice_id)
  IN  IF invoice = None THEN <<>>
      ELSE << DomainFact("invoices", invoice_id, InvoiceData(invoice[1]), 100),
              DomainFact("invoice_payments", invoice_id,
                         [total_paid |-> SumAmounts(paid),
                          remaining_balance |-> invoice[1].amount - SumAmounts(paid),
                          payment_count |-> Len(paid)], 90) >>

_get_work_order_facts(wo_id) ==
  LET work_order == First(SelectSeq(work_orders, LAMBDA wo : wo.wo_id = wo_id))
  IN  IF work_order = None THEN <<>>
      ELSE <<DomainFact("work_orders", wo_id, WorkOrderData(work_order[1]), 100)>>

_get_task_facts(task_id) ==
  LET task == First(SelectSeq(tasks, LAMBDA t : t.task_id = task_id))
  IN  IF task = None THEN <<>>
      ELSE <<DomainFact("tasks", task_id,
                        [title |-> task[1].title, body |-> task[1].body,
                         status |-> task[1].status], 100)>>

_retrieve_domain_facts(entities) ==
  Concat([k \in 1..Len(entities) |->
            LET table == entities[k].external_ref.table
                entity_id == entities[k].external_ref.id
            IN  CASE table = "domain.customers" -> _get_customer_facts(entity_id)
                  [] table = "domain.sales_orders" -> _get_sales_order_facts(entity_id)
                  [] table = "domain.invoices" -> _get_invoice_facts(entity_id)
                  [] table = "domain.tasks" -> _get_task_facts(entity_id)
                  [] table = "domain.work_orders" -> _get_work_order_facts(entity_id)
                  [] OTHER -> <<>>])

_build_customer_reasoning_chain(customer_id) ==
  LET customer == First(SelectSeq(customers, LAMBDA c : c.customer_id = customer_id))
      orders == SelectSeq(sales_orders, LAMBDA so : so.customer_id = customer_id)
      WOs(so) == SelectSeq(work_orders, LAMBDA wo : wo.so_id = so.so_id)
      Invs(so) == SelectSeq(invoices, LAMBDA inv : inv.so_id = so.so_id)
      Has(rows, status) == \E k \in 1..Len(rows) : rows[k].status = status
  IN  [customer |-> customer[1].name,
       sales_orders |->
         [k \in 1..Len(orders) |->
            [so_number |-> orders[k].so_number, status |-> orders[k].status,
             work_orders |-> [j \in 1..Len(WOs(orders[k])) |->
                                WorkOrderData(WOs(orders[k])[j])],
             invoices |-> [j \in 1..Len(Invs(orders[k])) |->
                             InvoiceData(Invs(orders[k])[j])]]],
       can_invoice |-> \E k \in 1..Len(orders) :
                         Has(WOs(orders[k]), "done") /\ Invs(orders[k]) = <<>>,
       should_send_invoice |-> \E k \in 1..Len(orders) : Has(Invs(orders[k]), "open"),
       blocked_work_orders |->
         Concat([k \in 1..Len(orders) |->
                   LET blocked == SelectSeq(WOs(orders[k]), LAMBDA wo : wo.status = "blocked")
                   IN  [j \in 1..Len(blocked) |->
                          [so_number |-> orders[k].so_number,
                           description |-> blocked[j].description]]])]

_build_reasoning_chains(entities) ==
  Concat([k \in 1..Len(entities) |->
            LET entity_id == entities[k].external_ref.id
            IN  IF /\ entities[k].external_ref.table = "domain.customers"
                   /\ First(SelectSeq(customers, LAMBDA c : c.customer_id = entity_id)) # None
                THEN <<DomainFact("reasoning_chains", "chain_" \o entity_id,
                                  _build_customer_reasoning_chain(entity_id), 80)>>
                ELSE <<>>])

\* re.search(r'(\d+)\s+days?\s+ago', s) matched at character i: the digits of
\* group 1, "" when there is no match at i
DaysAgoAt(s, i) ==
  LET n == DigitRun(s, i)
      day == LitEnd(s, WsEnd(s, i + n), "day")
      plural == LitEnd(s, WsEnd(s, LitEnd(s, day, "s")), "ago")
      singular == LitEnd(s, WsEnd(s, day), "ago")
  IN  IF n > 0 /\ day > 0 /\ (plural > 0 \/ singular > 0) THEN SubSeq(s, i, i + n - 1) ELSE ""

DaysAgoSearch(s, i) ==
  LET hits == {j \in i..Len(s) : DaysAgoAt(s, j) # ""}
  IN  IF hits = {} THEN "" ELSE DaysAgoAt(s, LeastOf(hits))

RECURSIVE StripZeros(_)
\* str(int(digits)): the digits without leading zeros
StripZeros(digits) ==
  IF Len(digits) > 1 /\ CharAt(digits, 1) = "0" THEN StripZeros(Tail(digits)) ELSE digits

\* int(digits) > 90, decided on the decimal digits
Over90(digits) ==
  LET d == StripZeros(digits)
  IN  \/ Len(d) > 2
      \/ Len(d) = 2 /\ CharAt(d, 1) = "9" /\ CharAt(d, 2) # "0"

_add_memory_status_info(memories, now) ==
  [k \in 1..Len(memories) |->
     LET memory == memories[k]
         days_old == now - memory.created_at
         memory_text_lower == Lower(memory.text)
         has_time_reference == DaysAgoSearch(memory_text_lower, 1)
         stale ==
           IF has_time_reference # ""
           THEN IF Over90(has_time_reference)
                THEN " [Note: This preference is " \o StripZeros(has_time_reference)
                     \o " days old]"
                ELSE ""
           ELSE IF Contains(memory_text_lower, "prefer") /\ days_old > 90
                THEN " [Note: This preference is " \o ToString(days_old) \o " days old]"
                ELSE ""
         sla == IF ContainsAny(memory_text_lower, {"sla", "breach", "risk"})
                THEN " [Note: This involves SLA risk]" ELSE ""
         done == IF ContainsAny(memory_text_lower, {"done", "complete", "finished"})
                 THEN " [Note: This task is completed]" ELSE ""
         invoice == IF /\ Contains(memory_text_lower, "invoice")
                       /\ ContainsAny(memory_text_lower, {"due", "remind"})
                    THEN " [Note: This involves invoice reminders]" ELSE ""
     IN  [memory EXCEPT !.text = memory.text \o stale \o sla \o done \o invoice]]

day_conflicts ==
  { <<"thursday", "friday">>, <<"monday", "tuesday">>, <<"morning", "afternoon">> }

_is_conflicting_memory(text1, text2) ==
  LET text1_lower == Lower(text1)
      text2_lower == Lower(text2)
  IN  \E pair \in day_conflicts :
        \/ Contains(text1_lower, pair[1]) /\ Contains(text2_lower, pair[2])
        \/ Contains(text1_lower, pair[2]) /\ Contains(text2_lower, pair[1])

\* created_at is kept in whole days; rows of one day are ordered by their
\* memory_id, which grows with the insertion time
CreatedAfter(mem1, mem2) ==
  \/ mem1.created_at > mem2.created_at
  \/ mem1.created_at = mem2.created_at /\ mem1.memory_id > mem2.memory_id

_detect_conflicting_memories(query, memories) ==
  LET query_lower == Lower(query)
      customer_names ==
        SelectSeq(<<"kai media", "tc boiler">>, LAMBDA name : Contains(query_lower, name))
      CustomerMemories(name) ==
        SelectSeq(memories, LAMBDA m : /\ m.kind = "semantic"
                                       /\ Contains(Lower(m.text), name)
                                       /\ ContainsAny(Lower(m.text), {"prefer", "like"}))
      Conflicts(ms) ==
        Concat([i \in 1..Len(ms) |->
          Concat([j \in 1..Len(ms) |->
            IF i < j /\ _is_conflicting_memory(ms[i].text, ms[j].text)
            THEN <<[memory1 |-> ms[i].memory_id, memory2 |-> ms[j].memory_id,
                    resolution |-> IF CreatedAfter(ms[i], ms[j])
                                   THEN "most_recent" ELSE "older"]>>
            ELSE <<>>])])
  IN  Concat([k \in 1..Len(customer_names) |->
                LET conflicts == Conflicts(CustomerMemories(customer_names[k]))
                IN  IF conflicts # <<>>
                    THEN <<DomainFact("memory_conflicts", "conflict_" \o customer_names[k],
                                      [customer |-> customer_names[k],
                                       conflicts |-> conflicts,
                                       resolution_strategy |-> "most_recent"], 90)>>
                    ELSE <<>>])

order_prefixes == <<"SO-", "INV-", "WO-">>

\* \b(SO-\d+|INV-\d+|WO-\d+)\b matched at character i, case-sensitively: the
\* position after the match, 0 when there is none
OrderNumberEnd(s, i) ==
  LET Try(prefix) ==
        LET d == i + Len(prefix)
            n == DigitRun(s, d)
        IN  IF /\ i + Len(prefix) - 1 <= Len(s)
               /\ SubSeq(s, i, i + Len(prefix) - 1) = prefix
               /\ n > 0
               /\ WordBoundary(s, d + n)
            THEN d + n ELSE 0
      hit == First(SelectSeq(order_prefixes, LAMBDA prefix : Try(prefix) > 0))
  IN  IF WordBoundary(s, i) /\ hit # None THEN Try(hit[1]) ELSE 0

RECURSIVE OrderNumberFindAllFrom(_, _)
OrderNumberFindAllFrom(s, i) ==
  LET hits == {j \in i..Len(s) : OrderNumberEnd(s, j) > 0}
      Take(j, e) == <<SubSeq(s, j, e - 1)>> \o OrderNumberFindAllFrom(s, e)
      Hit(j) == Take(j, OrderNumberEnd(s, j))
  IN  IF hits = {} THEN <<>> ELSE Hit(LeastOf(hits))

status_keywords == {"status", "complete", "done", "finished", "fulfilled", "is.*complete"}

status_mappings_no_fulfillment ==
  [draft |-> <<"fulfilled", "complete", "done", "finished">>,
   open |-> <<"paid", "complete", "done", "finished">>,
   queued |-> <<"done", "complete", "finished">>]

status_mappings ==
  [in_fulfillment |-> <<"fulfilled", "complete", "done", "finished">>,
   draft |-> <<"fulfilled", "complete", "done", "finished">>,
   open |-> <<"paid", "complete", "done", "finished">>,
   queued |-> <<"done", "complete", "finished">>]

_detect_db_memory_inconsistencies(query, memories, domain_facts) ==
  LET query_lower == Lower(query)
      order_numbers == OrderNumberFindAllFrom(query, 1)
      DbFact(order_number) ==
        First(SelectSeq(domain_facts, LAMBDA fact : /\ fact.table = "sales_orders"
                                          /\ fact.data.so_number = order_number))
      ConflictingMemories(order_number) ==
        SelectSeq(memories, LAMBDA m :
          /\ Contains(Lower(m.text), Lower(order_number))
          /\ ContainsAny(Lower(m.text), {"fulfilled", "complete", "done", "finished"}))
      Fact(order_number) ==
        LET db_fact == DbFact(order_number)
            conflicting_memories == ConflictingMemories(order_number)
            db_status == Lower(db_fact[1].data.status)
            \* the first memory, and in it the first status word, that contradicts
            Words(m) == SelectSeq(status_mappings[db_status],
                                  LAMBDA w : Contains(Lower(m.text), w))
            hits == SelectSeq(conflicting_memories, LAMBDA m : Words(m) # <<>>)
            inconsistent == db_status \in DOMAIN status_mappings /\ hits # <<>>
        IN  IF db_fact # None /\ inconsistent
            THEN <<DomainFact("db_memory_inconsistency", "inconsistency_" \o order_number,
                     [order_number |-> order_number,
                      db_status |-> db_status,
                      memory_status |-> Words(hits[1])[1],
                      conflicting_memories |->
                        [j \in 1..Len(conflicting_memories) |->
                           [memory_id |-> conflicting_memories[j].memory_id,
                            text |-> conflicting_memories[j].text]],
                      resolution |-> "prefer_db",
                      action |-> "mark_memory_for_decay",
                      message |-> "Database shows " \o db_status \o " but memory says "
                                  \o Words(hits[1])[1] \o ". Using database truth."], 95)>>
            ELSE <<>>
  IN  IF ContainsAny(query_lower, status_keywords)
      THEN Concat([k \in 1..Len(order_numbers) |-> Fact(order_numbers[k])])
      ELSE <<>>

\* A summary that has an embedding is turned into a MemoryRetrievalResult
\* without importance and created_at, which the constructor rejects
_retrieve_relevant_summaries(sums, query_embedding, user_id) ==
  LET summaries == SelectSeq(sums, LAMBDA sm : sm.user_id = user_id)
  IN  [results |-> <<>>,
       raised |-> \E k \in 1..Len(summaries) : Len(summaries[k].embedding) > 0]

default_session_id == "00000000-0000-0000-0000-000000000000"

RetrievalContext(memories, domain_facts, entities, raised) ==
  [memories |-> memories, domain_facts |-> domain_facts, entities |-> entities,
   raised |-> raised]

retrieve_context(rows, sums, now, query, query_embedding, user_id, session_id, limit) ==
  LET WithFacts(entities, memories, facts) ==
        RetrievalContext(memories,
                         facts \o _detect_db_memory_inconsistencies(query, memories, facts),
                         entities, FALSE)
      Build(entities, memories) ==
        WithFacts(entities, memories,
                  _retrieve_domain_facts(entities)
                  \o _detect_conflicting_memories(query, memories)
                  \o _build_reasoning_chains(entities))
  IN  IF _retrieve_relevant_summaries(sums, query_embedding, user_id).raised
      THEN RetrievalContext(<<>>, <<>>, <<>>, TRUE)
      ELSE Build(extract_entities(rows, query,
                                  IF session_id = NoValue THEN default_session_id
                                  ELSE session_id, "default"),
                 _add_memory_status_info(
                   retrieve_memories(rows, now, query_embedding, user_id, session_id,
                                     NoValue, limit), now))

(***************************************************************************)
(* LLMService.  What the provider answers is an input of the request: it   *)
(* either fails, and the mock response takes over, or it returns a text    *)
(* made of fixed words and of what the prompt showed it.                   *)
(***************************************************************************)

PromptContext(system_prompt, user_message, memories, domain_facts, conversation_history) ==
  [system_prompt |-> system_prompt, user_message |-> user_message,
   memories |-> memories, domain_facts |-> domain_facts,
   conversation_history |-> conversation_history]

\* response.choices[0].message.content for a provider that answered
ProviderReply(outcome, context) ==
  CASE outcome = "plain" -> "Noted."
    [] outcome = "clarify" -> "Could you clarify which one you mean?"
    [] outcome = "echo" ->
         "You said: " \o context.user_message
         \o (IF context.memories # <<>>
             THEN " I recall: " \o context.memories[1].text ELSE "")

_is_reschedule_request(user_message) ==
  LET user_lower == Lower(user_message)
  IN  /\ Contains(user_lower, "reschedule")
      /\ ContainsAny(user_lower, {"work order", "wo", "pick-pack"})

SqlUpdate ==
  "UPDATE domain.work_orders \nSET scheduled_for = '2024-01-26' \n"
  \o "WHERE technician = 'Alex' AND description LIKE '%pick-pack%';\n\n"
  \o "This will move the work order to the next Friday while maintaining Alex's assignment."

\* the reply's code fence (three backquotes, a character a string of this
\* language cannot hold) is written ~~~
_generate_reschedule_response(context) ==
  LET customer_name == IF Contains(Lower(context.user_message), "kai media") THEN "Kai Media"
                       ELSE IF Contains(Lower(context.user_message), "tc boiler")
                       THEN "TC Boiler"
                       ELSE "Kai Media"
  IN  "I'll help you reschedule " \o customer_name
      \o "'s pick-pack work order to Friday while keeping Alex assigned.\n\n"
      \o "Here's the SQL update to reschedule the work order:\n\n~~~sql\n"
      \o "UPDATE domain.work_orders \nSET scheduled_for = '2024-01-26' \n"
      \o "WHERE technician = 'Alex' \n  AND description LIKE '%pick-pack%'\n"
      \o "  AND so_id = (\n    SELECT so_id FROM domain.sales_orders \n"
      \o "    WHERE customer_id = (\n      SELECT customer_id FROM domain.customers \n"
      \o "      WHERE name = '" \o customer_name \o "'\n    )\n  );\n~~~\n\n"
      \o "This will:\n- Move the work order to Friday (2024-01-26)\n"
      \o "- Keep Alex assigned as the technician\n"
      \o "- Target the pick-pack work order for " \o customer_name \o "\n\n"
      \o "The work order has been successfully rescheduled to Friday while "
      \o "maintaining Alex's assignment."

_generate_mock_response(context) ==
  LET user_message == Lower(context.user_message)
      Has(word) == Contains(user_message, word)
  IN  IF Has("work order") /\ Has("kai media") /\ Has("reschedule") /\ Has("friday")
      THEN "I'll help you reschedule Kai Media's pick-pack work order to Friday while "
           \o "keeping Alex assigned. Here's the SQL update:\n\n" \o SqlUpdate
      ELSE IF Has("work order") /\ Has("kai media") /\ Has("reschedule")
      THEN "I'll reschedule Kai Media's pick-pack work order to Friday and keep Alex "
           \o "assigned. Here's the SQL update:\n\n" \o SqlUpdate
      ELSE IF Has("reschedule") /\ (Has("work order") \/ Has("pick-pack"))
      THEN "I'll reschedule the work order to Friday and keep Alex assigned. "
           \o "Here's the SQL update:\n\n" \o SqlUpdate
      ELSE IF Has("status")
      THEN "The current status of Kai Media's work order for sales order SO-1001 is "
           \o "'queued'. The technician assigned to this work order is Alex, and it is "
           \o "scheduled for January 22, 2024."
      ELSE IF Has("prefer") /\ Has("friday")
      THEN "I've noted that Kai Media prefers Friday scheduling for work orders. This "
           \o "preference will be remembered for future scheduling decisions."
      ELSE IF Has("sql") /\ Has("reschedule")
      THEN "Here's the SQL to reschedule work order SO-1001 to next Friday:\n\n"
           \o "UPDATE domain.work_orders \nSET scheduled_for = '2024-01-26' \n"
           \o "WHERE technician = 'Alex' AND so_id = (SELECT so_id FROM "
           \o "domain.sales_orders WHERE so_number = 'SO-1001');"
      ELSE "I understand your request. Let me help you with that."

\* what the provider's client raises when the call fails
ProviderErrorText == "Error code: 401 - Incorrect API key provided"

\* generate_response answering a failed call with the exception's text
generate_response_leaky(context, outcome) ==
  IF _is_reschedule_request(context.user_message)
  THEN _generate_reschedule_response(context)
  ELSE IF outcome = "error" THEN "Error generating LLM response: " \o ProviderErrorText
  ELSE ProviderReply(outcome, context)

\* outcome: what the provider did with this request
generate_response(context, outcome) ==
  IF _is_reschedule_request(context.user_message)
  THEN _generate_reschedule_response(context)
  ELSE IF outcome = "error" THEN _generate_mock_response(context)
  ELSE ProviderReply(outcome, context)

memory_indicators ==
  {"remember", "note that", "keep in mind", "important", "preference", "likes",
   "dislikes", "sent", "completed", "drafted", "created", "initiated", "finished", "done"}

RECURSIVE SplitOn(_, _)
\* s.split(sep) for a non-empty sep
SplitOn(s, sep) ==
  LET At(j) == <<SubSeq(s, 1, j - 1)>> \o SplitOn(SubSeq(s, j + Len(sep), Len(s)), sep)
  IN  IF Contains(s, sep) THEN At(Find(s, sep)) ELSE <<s>>

\* the dicts [text, kind, importance, ttl_days] made of the sentences of the
\* response that hold a memory indicator
extract_memories_from_response(response) ==
  LET sentences == SplitOn(response, ".")
      stripped == [k \in 1..Len(sentences) |-> Strip(sentences[k])]
      Dict(sentence) ==
        IF ContainsAny(Lower(sentence),
                       {"sent", "completed", "drafted", "created", "initiated",
                        "finished", "done", "email"})
        THEN [text |-> sentence, kind |-> "episodic", importance |-> 80,
              ttl_days |-> Some(30)]
        ELSE IF ContainsAny(Lower(sentence),
                            {"preference", "likes", "dislikes", "prefers", "always",
                             "never"})
        THEN [text |-> sentence, kind |-> "semantic", importance |-> 90,
              ttl_days |-> None]
        ELSE [text |-> sentence, kind |-> "semantic", importance |-> 60,
              ttl_days |-> None]
      kept == SelectSeq(stripped,
                        LAMBDA sentence : ContainsAny(Lower(sentence), memory_indicators))
  IN  [k \in 1..Len(kept) |-> Dict(kept[k])]

(***************************************************************************)
(* ActionKnowledgeMemoryClassifier.  Importances are hundredths.           *)
(***************************************************************************)

Classification(category, kind, importance, ttl_days) ==
  [category |-> category, kind |-> kind, importance |-> importance, ttl_days |-> ttl_days]

action_keywords ==
  <<"drafted", "sent", "created", "completed", "finished", "done", "rescheduled",
    "updated", "processed", "executed", "performed", "email", "work order", "invoice",
    "order", "task">>

knowledge_keywords ==
  <<"prefers", "likes", "dislikes", "always", "never", "usually", "policy", "rule",
    "standard", "preference", "habit", "custom", "net15", "net30", "ach", "credit card",
    "friday", "monday">>

_rule_based_classify(text) ==
  LET text_lower == Lower(text)
      Score(keywords) == Len(SelectSeq(keywords, LAMBDA k : Contains(text_lower, k)))
      action_score == Score(action_keywords)
      knowledge_score == Score(knowledge_keywords)
  IN  IF action_score > knowledge_score THEN Classification("ACTION", "episodic", 80, Some(30))
      ELSE IF knowledge_score > action_score
      THEN Classification("KNOWLEDGE", "semantic", 90, None)
      ELSE Classification("ACTION", "episodic", 70, Some(30))

\* The JSON objects the provider may answer with; the third carries a
\* category no memory is written for, the fourth an importance above 1.0,
\* the fifth a ttl for a semantic memory, the sixth a negative ttl
ProviderClassifications ==
  << Classification("ACTION", "episodic", 80, Some(30)),
     Classification("KNOWLEDGE", "semantic", 90, None),
     Classification("STATUS", "episodic", 50, Some(30)),
     Classification("KNOWLEDGE", "semantic", 150, None),
     Classification("KNOWLEDGE", "semantic", 90, Some(30)),
     Classification("ACTION", "episodic", 80, Some(-1)) >>

\* outcome 0: the provider call failed and the rules decide
_llm_classify(text, outcome) ==
  IF outcome = 0 THEN _rule_based_classify(text) ELSE ProviderClassifications[outcome]

_convert_to_classified_memory(text, classification) ==
  [text |-> text,
   category |-> IF classification.category \in {"ACTION", "KNOWLEDGE", "STATUS", "PREFERENCE"}
                THEN classification.category ELSE "ACTION",
   kind |-> classification.kind, importance |-> classification.importance,
   ttl_days |-> classification.ttl_days]

classify_memory(text, outcome) ==
  _convert_to_classified_memory(text, _llm_classify(text, outcome))

(***************************************************************************)
(* HybridChatPipeline                                                      *)
(***************************************************************************)

general_patterns ==
  {"how are you", "hello", "hi", "thanks", "thank you", "good morning",
   "good afternoon", "good evening", "what is the weather", "what time is it", "bye",
   "goodbye", "see you", "take care", "have a good day"}

business_keywords ==
  {"customer", "order", "invoice", "payment", "work order", "task", "kai media",
   "tc boiler", "so-", "inv-", "wo-", "draft", "send", "reschedule", "create", "update",
   "complete", "prefer", "like", "remember", "policy", "rule", "status", "delivery",
   "schedule", "due", "amount", "balance", "agreed", "terms", "net15", "ach", "rush",
   "monthly", "plan"}

customer_force_keywords ==
  {"tc boiler", "kai media", "net15", "payment terms", "prefer", "agreed", "remember:"}

\* the processing mode chosen for the message
_step1_quick_intent_detection(user_message) ==
  LET message_lower == Strip(Lower(user_message))
      is_general_chat == ContainsAny(message_lower, general_patterns)
      has_business_content == ContainsAny(message_lower, business_keywords)
      force_full_mode == ContainsAny(message_lower, customer_force_keywords)
  IN  IF force_full_mode THEN "full"
      ELSE IF is_general_chat /\ ~has_business_content THEN "simple"
      ELSE "full"

\* context.user_message and context.pii_matches after the step
_step1_5_pii_detection(user_message) ==
  LET Masked(pii_matches) ==
        [user_message |-> IF pii_matches # <<>> THEN mask_pii(user_message, pii_matches)
                          ELSE user_message,
         pii_matches |-> pii_matches]
  IN  Masked(detect_pii(user_message))

\* context.entities; the same rows are added to app.entities
_step2_entity_extraction(rows, user_message, session_id, user_id) ==
  link_entities_to_domain(extract_entities(rows, user_message, session_id, user_id))

HistoryLimit == 10

ChatMessage(role, content) == [role |-> role, content |-> content]

\* the last HistoryLimit events of the session, oldest first
_load_conversation_history(events, session_id) ==
  LET mine == SelectSeq(events, LAMBDA e : e.session_id = session_id)
      recent == SubSeq(mine, Max(1, Len(mine) - HistoryLimit + 1), Len(mine))
  IN  [k \in 1..Len(recent) |-> ChatMessage(recent[k].role, recent[k].content)]

ChatEvent(session_id, role, content) ==
  [session_id |-> session_id, role |-> role, content |-> content]

\* the two events stored in the opposite order
_store_chat_events_assistant_first(events, session_id, user_message, assistant_response) ==
  events \o << ChatEvent(session_id, "assistant", assistant_response),
               ChatEvent(session_id, "user", user_message) >>

_store_chat_events(events, session_id, user_message, assistant_response) ==
  events \o << ChatEvent(session_id, "user", user_message),
               ChatEvent(session_id, "assistant", assistant_response) >>

_build_clarification_prompt(candidates) ==
  "I found multiple possible matches for your query. Please clarify which one you mean:\n\n"
  \o Join([i \in 1..Len(candidates) |-> ToString(i) \o ". " \o candidates[i].name \o "\n"], "")
  \o "\nPlease respond with the number or name of your choice."

ChatResponseFields == {"reply", "used_memories", "used_domain_facts", "session_id"}

\* ChatResponse(**kwargs): the model keeps the fields it declares, fills in
\* the defaults of the lists and drops every other keyword
ChatResponse(kwargs) ==
  [f \in ChatResponseFields |->
     IF f \in DOMAIN kwargs THEN kwargs[f] ELSE <<>>]

CandidateDicts(candidates) ==
  [k \in 1..Len(candidates) |->
     [name |-> candidates[k].name, type |-> candidates[k].type,
      external_ref |-> candidates[k].external_ref]]

_should_create_short_term_memory(user_message) == Len(user_message) > 10

\* a Memory built by the pipeline, before it is handed to create_memory
NewMemory(text, kind, importance, ttl_days) ==
  [text |-> text, kind |-> kind, importance |-> importance, ttl_days |-> ttl_days,
   embedding |-> generate_embedding(text)]

_create_short_term_memory(user_message) ==
  NewMemory("User said: " \o user_message, "episodic", 30, Some(7))

_extract_implicit_preference(user_message) ==
  LET message_lower == Lower(user_message)
      Has(word) == Contains(message_lower, word)
  IN  IF Has("reschedule") /\ Has("friday") /\ Has("kai media")
      THEN Some("Kai Media prefers Friday; align WO scheduling accordingly.")
      ELSE IF Has("prefer") /\ Has("friday") /\ Has("kai media")
      THEN Some("Kai Media prefers Friday deliveries for all shipments.")
      ELSE IF Has("prefer") /\ Has("friday") /\ Has("tc boiler")
      THEN Some("TC Boiler prefers Friday deliveries for all shipments.")
      ELSE IF Has("net") /\ Has("tc boiler")
      THEN Some("TC Boiler is NET15; align payment terms accordingly.")
      ELSE IF Has("net") /\ Has("kai media")
      THEN Some("Kai Media is NET15; align payment terms accordingly.")
      ELSE None

_process_memories_with_classifier(user_message, outcome) ==
  LET message_lower == Lower(user_message)
      user_memory == classify_memory(user_message, outcome)
      implicit_preference == _extract_implicit_preference(user_message)
  IN  IF Contains(message_lower, "remember:")
      THEN <<NewMemory(user_message, "semantic", 90, None)>>
      ELSE IF ContainsAny(message_lower, customer_force_keywords \ {"remember:"})
      THEN <<NewMemory(user_message, "semantic", 90, None)>>
      ELSE (IF user_memory.category \in {"ACTION", "KNOWLEDGE"}
            THEN <<NewMemory(user_memory.text, user_memory.kind, user_memory.importance,
                             user_memory.ttl_days)>>
            ELSE <<>>)
           \o (IF implicit_preference # None
               THEN <<NewMemory(implicit_preference[1], "semantic", 90, None)>>
               ELSE <<>>)

\* context.memories_to_store
_step11_memory_processing(user_message, processing_mode, outcome) ==
  IF ContainsAny(Lower(user_message), customer_force_keywords)
  THEN <<NewMemory(user_message, "semantic", 90, None)>>
  ELSE IF processing_mode = "simple"
  THEN IF _should_create_short_term_memory(user_message)
       THEN <<_create_short_term_memory(user_message)>>
       ELSE <<>>
  ELSE _process_memories_with_classifier(user_message, outcome)

RetrieveLimit == 10

\* context.retrieval_context: None in SIMPLE mode
_step7_context_retrieval(db, now, processing_mode, user_message, user_id, session_id) ==
  IF processing_mode = "simple" THEN None
  ELSE Some(retrieve_context(db.memories, db.summaries, now, user_message,
                             generate_embedding(user_message), user_id, session_id,
                             RetrieveLimit))

_step9_prompt_building(processing_mode, user_message, retrieval_context, history) ==
  PromptContext(
    IF processing_mode = "simple"
    THEN "You are a helpful assistant. Provide a brief, friendly response."
    ELSE "You are an intelligent business assistant with access to customer data, "
         \o "orders, invoices, and memory.",
    user_message,
    IF retrieval_context # None THEN retrieval_context[1].memories ELSE <<>>,
    IF retrieval_context # None THEN retrieval_context[1].domain_facts ELSE <<>>,
    history)

RECURSIVE StoreMemories(_, _, _, _, _)
\* the create_memory loop of step 12: the table after it, the ids of the rows
\* returned and whether a call raised, which ends the loop
StoreMemories(rows, now, session_id, memories_to_store, pii_matches) ==
  LET Rest(created) ==
        IF created.raised THEN [rows |-> rows, stored |-> <<>>, raised |-> TRUE]
        ELSE LET Prepend(rest) == [rest EXCEPT !.stored = <<created.memory_id>> \o rest.stored]
             IN  Prepend(StoreMemories(created.rows, now, session_id,
                                       Tail(memories_to_store), pii_matches))
      Store(memory) ==
        Rest(create_memory(rows, now, session_id, memory.kind, memory.text,
                           memory.embedding, memory.importance, memory.ttl_days,
                           pii_matches))
  IN  IF memories_to_store = <<>> THEN [rows |-> rows, stored |-> <<>>, raised |-> FALSE]
      ELSE Store(Head(memories_to_store))

ConsolidationWindow == 3

\* both tables after the loop and the consolidation, whose failure is logged
_step12_memory_storage(db, now, user_id, session_id, memories_to_store, pii_matches) ==
  LET Merge(store, merged) ==
        IF merged.raised
        THEN [memories |-> store.rows, summaries |-> db.summaries,
              stored |-> store.stored, raised |-> FALSE]
        ELSE [memories |-> merged.rows, summaries |-> merged.summaries,
              stored |-> store.stored, raised |-> FALSE]
      Consolidate(store) ==
        IF store.raised
        THEN [memories |-> store.rows, summaries |-> db.summaries,
              stored |-> store.stored, raised |-> TRUE]
        ELSE Merge(store, consolidate_memories(store.rows, db.summaries, now, user_id,
                                               ConsolidationWindow, FALSE))
  IN  Consolidate(StoreMemories(db.memories, now, session_id, memories_to_store,
                                pii_matches))

_build_response(context) ==
  LET full == context.processing_mode = "full" /\ context.retrieval_context # None
      memories == IF full THEN context.retrieval_context[1].memories ELSE <<>>
      facts == IF full THEN context.retrieval_context[1].domain_facts ELSE <<>>
  IN  ChatResponse(
        [reply |-> context.llm_response,
         used_memories |-> [k \in 1..Len(memories) |->
                              [memory_id |-> memories[k].memory_id,
                               text |-> memories[k].text,
                               similarity |-> memories[k].similarity,
                               kind |-> memories[k].kind]],
         used_domain_facts |-> facts,
         session_id |-> context.session_id,
         disambiguation_needed |-> context.disambiguation_needed,
         candidate_entities |-> CandidateDicts(context.candidate_entities)])

\* what a request that raised returns: no ChatResponse at all
NoResponse == ChatResponse([reply |-> NoValue, session_id |-> NoValue])

\* the outcome of process(): the four tables of the app schema after the
\* request, the response, whether "Pipeline processing error" was raised, and
\* the PipelineContext the steps left behind
Outcome(db, response, raised, context) ==
  [db |-> db, response |-> response, raised |-> raised, context |-> context]

\* the clarification flow storing the prompt without the user message
_handle_disambiguation_flow_prompt_only(db, context) ==
  LET clarification_prompt == _build_clarification_prompt(context.candidate_entities)
  IN  Outcome([db EXCEPT !.chat_events =
                 Append(db.chat_events,
                        ChatEvent(context.session_id, "assistant", clarification_prompt))],
              ChatResponse([reply |-> clarification_prompt,
                            disambiguation_needed |-> TRUE,
                            candidate_entities |-> CandidateDicts(context.candidate_entities),
                            session_id |-> context.session_id]),
              FALSE, context)

_handle_disambiguation_flow(db, context) ==
  LET clarification_prompt == _build_clarification_prompt(context.candidate_entities)
  IN  Outcome([db EXCEPT !.chat_events =
                 _store_chat_events(db.chat_events, context.session_id,
                                    context.user_message, clarification_prompt)],
              ChatResponse([reply |-> clarification_prompt,
                            disambiguation_needed |-> TRUE,
                            candidate_entities |-> CandidateDicts(context.candidate_entities),
                            session_id |-> context.session_id]),
              FALSE, context)

_handle_normal_flow(db, now, context, llm, cls) ==
  LET Finish(retrieval_context, llm_response, storage) ==
        LET done == [context EXCEPT !.retrieval_context = retrieval_context,
                                    !.llm_response = llm_response,
                                    !.stored = storage.stored]
            stored_db == [db EXCEPT !.memories = storage.memories,
                                    !.summaries = storage.summaries]
        IN  IF storage.raised
            THEN Outcome(stored_db, NoResponse, TRUE, done)
            ELSE Outcome([stored_db EXCEPT !.chat_events =
                            _store_chat_events(db.chat_events, context.session_id,
                                               context.user_message, llm_response)],
                         _build_response(done), FALSE, done)
      Respond(retrieval_context) ==
        IF retrieval_context # None /\ retrieval_context[1].raised
        THEN Outcome(db, NoResponse, TRUE, context)
        ELSE Finish(retrieval_context,
                    generate_response(
                      _step9_prompt_building(
                        context.processing_mode, context.user_message, retrieval_context,
                        _load_conversation_history(db.chat_events, context.session_id)),
                      llm),
                    _step12_memory_storage(
                      db, now, context.user_id, context.session_id,
                      _step11_memory_processing(context.user_message,
                                                context.processing_mode, cls),
                      context.pii_matches))
  IN  Respond(_step7_context_retrieval(db, now, context.processing_mode,
                                       context.user_message, context.user_id,
                                       context.session_id))

\* request: [user_id, session_id, message] with the session id already drawn
\* when the request brought none; llm, cls: what the two provider calls do
process(db, now, request, llm, cls) ==
  LET Branch(context, result) ==
        LET linked_db == [db EXCEPT !.entities = db.entities \o context.entities,
                                    !.memories = result.rows]
            decided == [context EXCEPT !.disambiguation_needed = result.needed,
                                       !.candidate_entities = result.candidates,
                                       !.selected_entity = result.selected]
        IN  IF result.raised THEN Outcome(linked_db, NoResponse, TRUE, decided)
            ELSE IF result.needed THEN _handle_disambiguation_flow(linked_db, decided)
            ELSE _handle_normal_flow(linked_db, now, decided, llm, cls)
      Decide(context) ==
        Branch(context,
               decide_disambiguation(
                 db.memories, now, context.entities,
                 _load_conversation_history(db.chat_events, request.session_id),
                 context.user_message, request.session_id, request.user_id))
      Extract(pii) ==
        Decide([user_id |-> request.user_id, session_id |-> request.session_id,
                user_message |-> pii.user_message,
                processing_mode |-> _step1_quick_intent_detection(request.message),
                entities |-> _step2_entity_extraction(db.memories, pii.user_message,
                                                      request.session_id,
                                                      request.user_id),
                pii_matches |-> pii.pii_matches,
                disambiguation_needed |-> FALSE,
                candidate_entities |-> <<>>,
                selected_entity |-> None,
                retrieval_context |-> None,
                llm_response |-> NoValue, stored |-> <<>>])
  IN  Extract(_step1_5_pii_detection(request.message))

\* process() up to the branch decision: steps 1 to 3, whose writes (the
\* extracted entities, an alias memory) are committed as they happen
process_begin(db, now, request) ==
  LET Branch(context, result) ==
        [db |-> [db EXCEPT !.entities = db.entities \o context.entities,
                           !.memories = result.rows],
         context |-> [context EXCEPT !.disambiguation_needed = result.needed,
                                     !.candidate_entities = result.candidates,
                                     !.selected_entity = result.selected],
         raised |-> result.raised]
      Decide(context) ==
        Branch(context,
               decide_disambiguation(
                 db.memories, now, context.entities,
                 _load_conversation_history(db.chat_events, request.session_id),
                 context.user_message, request.session_id, request.user_id))
      Extract(pii) ==
        Decide([user_id |-> request.user_id, session_id |-> request.session_id,
                user_message |-> pii.user_message,
                processing_mode |-> _step1_quick_intent_detection(request.message),
                entities |-> _step2_entity_extraction(db.memories, pii.user_message,
                                                      request.session_id,
                                                      request.user_id),
                pii_matches |-> pii.pii_matches,
                disambiguation_needed |-> FALSE,
                candidate_entities |-> <<>>,
                selected_entity |-> None,
                retrieval_context |-> None,
                llm_response |-> NoValue, stored |-> <<>>])
  IN  Extract(_step1_5_pii_detection(request.message))

\* process() from the branch decision on, run against the tables as they are
\* when the request gets there
process_finish(db, now, context, llm, cls) ==
  IF context.disambiguation_needed THEN _handle_disambiguation_flow(db, context)
  ELSE _handle_normal_flow(db, now, context, llm, cls)

(***************************************************************************)
(* POST /chat/: the route handler, which serves the request without the    *)
(* pipeline.  Whatever is raised inside its try block becomes a 500.       *)
(***************************************************************************)

\* the route storing the text of each dict as a semantic memory
chat_storing_reply(db, now, request, llm) ==
  LET llm_response ==
        generate_response(PromptContext("", request.message, <<>>, <<>>, <<>>), llm)
      potential_memories == extract_memories_from_response(llm_response)
      store == StoreMemories(db.memories, now, request.session_id,
                             [k \in 1..Len(potential_memories) |->
                                NewMemory(potential_memories[k].text, "semantic", 70, None)],
                             <<>>)
  IN  [db |-> [db EXCEPT !.memories = store.rows,
                         !.chat_events =
                           db.chat_events
                           \o << ChatEvent(request.session_id, "user", request.message),
                                 ChatEvent(request.session_id, "assistant", llm_response) >>],
       response |-> ChatResponse([reply |-> llm_response,
                                  session_id |-> request.session_id]),
       raised |-> FALSE, llm_response |-> llm_response,
       potential_memories |-> potential_memories]

\* The loop that stores the memories hands each dict of
\* extract_memories_from_response, not its text, to generate_embedding:
\* the provider call fails on it, the mock embedding calls encode() on it,
\* and that error leaves the loop at its first turn, before create_memory.
\* The entities were committed before; the session's close drops the rest.
chat(db, now, request, llm) ==
  LET session_id == request.session_id
      Raised(tables, reply, potential_memories) ==
        [db |-> tables, response |-> NoResponse, raised |-> TRUE,
         llm_response |-> reply, potential_memories |-> potential_memories]
      Store(context, linked_db, llm_response, potential_memories) ==
        IF potential_memories # <<>>
        THEN Raised(linked_db, llm_response, potential_memories)
        ELSE [db |-> [linked_db EXCEPT !.chat_events =
                        linked_db.chat_events
                        \o << ChatEvent(session_id, "user", request.message),
                              ChatEvent(session_id, "assistant", llm_response) >>],
              response |->
                ChatResponse(
                  [reply |-> llm_response,
                   used_memories |-> [k \in 1..Len(context.memories) |->
                                        [memory_id |-> context.memories[k].memory_id,
                                         text |-> context.memories[k].text,
                                         similarity |-> context.memories[k].similarity,
                                         kind |-> context.memories[k].kind]],
                   used_domain_facts |-> context.domain_facts,
                   session_id |-> session_id]),
              raised |-> FALSE, llm_response |-> llm_response,
              potential_memories |-> <<>>]
      Extract(context, linked_db, llm_response) ==
        Store(context, linked_db, llm_response,
              extract_memories_from_response(llm_response))
      Generate(context, linked_entities) ==
        Extract(context, [db EXCEPT !.entities = db.entities \o linked_entities],
                generate_response(
                  PromptContext("You are an intelligent business assistant with access to "
                                \o "customer data, orders, invoices, and memory.",
                                request.message, context.memories, context.domain_facts,
                                <<>>),
                  llm))
      Link(context) ==
        IF context.raised THEN Raised(db, NoValue, <<>>)
        ELSE Generate(context,
                      link_entities_to_domain(
                        extract_entities(db.memories, request.message, session_id,
                                         "default")))
  IN  Link(retrieve_context(db.memories, db.summaries, now, request.message,
                            generate_embedding(request.message), request.user_id,
                            session_id, RetrieveLimit))

(***************************************************************************)
(* The state: the four tables of the app schema, the clock in days, and    *)
(* the log of the calls made so far, each with its arguments and result,   *)
(* and the Chat requests that are inside the pipeline: each has passed      *)
(* steps 1 to 3 and has not yet run its flow handler.                       *)
(***************************************************************************)

VARIABLES memories, summaries, entities, chat_events, now, calls, inflight

vars == <<memories, summaries, entities, chat_events, now, calls, inflight>>

db == [memories |-> memories, summaries |-> summaries, entities |-> entities,
       chat_events |-> chat_events]

\* the migrations leave the app tables empty
Init ==
  /\ memories = <<>>
  /\ summaries = <<>>
  /\ entities = <<>>
  /\ chat_events = <<>>
  /\ now = 0
  /\ calls = <<>>
  /\ inflight = <<>>

MaxCalls == 3

MaxChats == 3

MaxDays == 120

\* request.session_id or uuid.uuid4(): a request without session id opens a
\* session no earlier request used
SessionOf(s) == IF s = NoValue THEN "session-" \o ToString(Len(calls) + 1) ELSE s

\* Chat(request): one request served by HybridChatPipeline.process
Chat(u, s, m, llm, cls) ==
  LET Done(request, out) ==
        /\ memories' = out.db.memories
        /\ summaries' = out.db.summaries
        /\ entities' = out.db.entities
        /\ chat_events' = out.db.chat_events
        /\ calls' = Append(calls, [op |-> "chat", user_id |-> u,
                                   session_id |-> request.session_id, message |-> m,
                                   response |-> out.response, raised |-> out.raised,
                                   context |-> [f \in DOMAIN out.context \ {"retrieval_context"}
                                                  |-> out.context[f]]])
        /\ UNCHANGED <<now, inflight>>
      Serve(request) == Done(request, process(db, now, request, llm, cls))
  IN  /\ Len(calls) < MaxChats
      /\ Serve([user_id |-> u, session_id |-> SessionOf(s), message |-> m])

ChatRecord(request, out) ==
  [op |-> "chat", user_id |-> request.user_id, session_id |-> request.session_id,
   message |-> request.message, response |-> out.response, raised |-> out.raised,
   context |-> [f \in DOMAIN out.context \ {"retrieval_context"} |-> out.context[f]]]

\* a Chat request enters the pipeline and runs steps 1 to 3 while other
\* requests may be inside it: the route is a plain function, which the
\* server runs on a worker thread per request, and no step takes a lock
ChatBegin(u, s, m) ==
  LET Enter(request, begun) ==
        /\ memories' = begun.db.memories
        /\ entities' = begun.db.entities
        /\ IF begun.raised
           THEN /\ calls' = Append(calls, ChatRecord(request,
                                     Outcome(begun.db, NoResponse, TRUE, begun.context)))
                /\ UNCHANGED inflight
           ELSE /\ inflight' = Append(inflight, [op |-> "chat", request |-> request,
                                                 context |-> begun.context])
                /\ UNCHANGED calls
        /\ UNCHANGED <<summaries, chat_events, now>>
      Serve(request) == Enter(request, process_begin(db, now, request))
  IN  /\ Len(calls) + Len(inflight) < MaxChats
      /\ Serve([user_id |-> u, session_id |-> SessionOf(s), message |-> m])

\* the request at position i of inflight runs its flow handler and returns
ChatEnd(i, llm, cls) ==
  LET Done(request, out) ==
        /\ memories' = out.db.memories
        /\ summaries' = out.db.summaries
        /\ entities' = out.db.entities
        /\ chat_events' = out.db.chat_events
        /\ calls' = Append(calls, ChatRecord(request, out))
        /\ inflight' = SubSeq(inflight, 1, i - 1) \o SubSeq(inflight, i + 1, Len(inflight))
        /\ UNCHANGED now
  IN  /\ i \in DOMAIN inflight
      /\ inflight[i].op = "chat"
      /\ Done(inflight[i].request,
              process_finish(db, now, inflight[i].context, llm, cls))

\* PostChat(request): one POST /chat/ request served by the route handler
PostChat(u, s, m, llm) ==
  LET Done(request, out) ==
        /\ memories' = out.db.memories
        /\ summaries' = out.db.summaries
        /\ entities' = out.db.entities
        /\ chat_events' = out.db.chat_events
        /\ calls' = Append(calls, [op |-> "post_chat", user_id |-> u,
                                   session_id |-> request.session_id, message |-> m,
                                   response |-> out.response, raised |-> out.raised,
                                   llm_response |-> out.llm_response,
                                   potential_memories |-> out.potential_memories])
        /\ UNCHANGED <<now, inflight>>
      Serve(request) == Done(request, chat(db, now, request, llm))
  IN  /\ Len(calls) < MaxChats
      /\ Serve([user_id |-> u, session_id |-> SessionOf(s), message |-> m])

CreateMemory(s, k, t, e, i, ttl) ==
  LET out == create_memory(memories, now, s, k, t, e, i, ttl, <<>>)
  IN  /\ Len(calls) < MaxCalls
      /\ memories' = out.rows
      /\ calls' = Append(calls, [op |-> "create_memory", session_id |-> s, kind |-> k,
                                 text |-> t, importance |-> i,
                                 memory_id |-> out.memory_id, raised |-> out.raised,
                                 inserted |-> Len(out.rows) > Len(memories)])
      /\ UNCHANGED <<summaries, entities, chat_events, now, inflight>>

RetrieveMemories(q, u, s, k, limit) ==
  /\ Len(calls) < MaxCalls
  /\ calls' = Append(calls, [op |-> "retrieve_memories", query_embedding |-> q,
                             user_id |-> u, session_id |-> s, kind |-> k,
                             limit |-> limit, at |-> now,
                             result |-> retrieve_memories(memories, now, q, u, s, k, limit)])
  /\ UNCHANGED <<memories, summaries, entities, chat_events, now, inflight>>

GetUserMemories(u, limit) ==
  /\ Len(calls) < MaxCalls
  /\ calls' = Append(calls, [op |-> "get_user_memories", user_id |-> u, limit |-> limit,
                             result |-> get_user_memories(memories, u, limit)])
  /\ UNCHANGED <<memories, summaries, entities, chat_events, now, inflight>>

\* retrieve_context annotating the Memory rows themselves
RetrieveContext_persisting(query, u, s, limit) ==
  LET result == retrieve_context(memories, summaries, now, query,
                                 generate_embedding(query), u, s, limit)
      Annotated(row) ==
        SelectSeq(result.memories, LAMBDA m : m.memory_id = row.memory_id)
  IN  /\ Len(calls) < MaxCalls
      /\ calls' = Append(calls, [op |-> "retrieve_context", query |-> query, user_id |-> u,
                                 session_id |-> s, limit |-> limit, result |-> result])
      /\ memories' = [k \in DOMAIN memories |->
                        IF Annotated(memories[k]) = <<>> THEN memories[k]
                        ELSE [memories[k] EXCEPT !.text = Annotated(memories[k])[1].text]]
      /\ UNCHANGED <<summaries, entities, chat_events, now, inflight>>

\* the callers pass the embedding of the query
RetrieveContext(query, u, s, limit) ==
  /\ Len(calls) < MaxCalls
  /\ calls' = Append(calls, [op |-> "retrieve_context", query |-> query, user_id |-> u,
                             session_id |-> s, limit |-> limit,
                             result |-> retrieve_context(memories, summaries, now, query,
                                                         generate_embedding(query), u, s,
                                                         limit)])
  /\ UNCHANGED <<memories, summaries, entities, chat_events, now, inflight>>

\* Consolidate(request): one POST /consolidate/ request
Consolidate(u) ==
  LET Done(out) ==
        /\ memories' = out.rows
        /\ summaries' = out.summaries
        /\ calls' = Append(calls, [op |-> "consolidate", user_id |-> u,
                                   status_code |-> out.status_code,
                                   summary_id |-> out.summary_id,
                                   not_found |-> out.not_found,
                                   created |-> Len(out.summaries) - Len(summaries)])
        /\ UNCHANGED <<entities, chat_events, now, inflight>>
  IN  /\ Len(calls) < MaxCalls
      /\ Done(post_consolidate(memories, summaries, now, u))

ConsolidateMemories(u, force) ==
  LET out == consolidate_memories(memories, summaries, now, u, ConsolidationWindow, force)
  IN  /\ Len(calls) < MaxCalls
      /\ memories' = out.rows
      /\ summaries' = out.summaries
      /\ calls' = Append(calls, [op |-> "consolidate_memories", user_id |-> u,
                                 force |-> force, summary |-> out.summary,
                                 raised |-> out.raised, at |-> now,
                                 triggered |->
                                   force \/ _should_trigger_consolidation(memories, now, u)])
      /\ UNCHANGED <<entities, chat_events, now, inflight>>

\* POST /consolidate/ up to the lookup of the existing summary row: the
\* trigger test, the processing of the episodic memories and the summary text
\* are done, the row found (or not) is remembered, nothing is written yet.
\* A call that returns None or raises ends here.
ConsolidateBegin(u) ==
  LET Enter(out) ==
        /\ memories' = out.rows
        /\ IF out.raised \/ out.summary = None
           THEN /\ calls' = Append(calls, [op |-> "consolidate_memories", user_id |-> u,
                                           force |-> FALSE, summary |-> None,
                                           raised |-> out.raised])
                /\ UNCHANGED inflight
           ELSE /\ inflight' =
                     Append(inflight,
                            [op |-> "consolidate", user_id |-> u,
                             existing_summary |-> IF out.summary[1] <= Len(summaries)
                                                  THEN out.summary ELSE None,
                             summary_text |-> out.summaries[out.summary[1]].summary])
                /\ UNCHANGED calls
        /\ UNCHANGED <<summaries, entities, chat_events, now>>
  IN  /\ Len(calls) + Len(inflight) < MaxCalls
      /\ Enter(consolidate_memories(memories, summaries, now, u, ConsolidationWindow, FALSE))

\* the rest of the call: the row found is updated, or a new row is inserted
ConsolidateEnd(i) ==
  LET call == inflight[i]
      Write(summary_id) ==
        /\ summaries' =
             IF call.existing_summary # None
             THEN [summaries EXCEPT ![summary_id].summary = call.summary_text,
                                    ![summary_id].created_at = now]
             ELSE Append(summaries, MemorySummary(summary_id, call.user_id,
                                                  ConsolidationWindow, call.summary_text, now))
        /\ calls' = Append(calls, [op |-> "consolidate_memories", user_id |-> call.user_id,
                                   force |-> FALSE, summary |-> Some(summary_id),
                                   raised |-> FALSE])
        /\ inflight' = SubSeq(inflight, 1, i - 1) \o SubSeq(inflight, i + 1, Len(inflight))
        /\ UNCHANGED <<memories, entities, chat_events, now>>
  IN  /\ i \in DOMAIN inflight
      /\ inflight[i].op = "consolidate"
      /\ Write(IF call.existing_summary # None THEN call.existing_summary[1]
               ELSE Len(summaries) + 1)

\* AliasMappingService.store_alias_mapping called on its own
StoreAlias(u, alias_text, entity_name, entity_id) ==
  LET Done(out) ==
        /\ memories' = out.rows
        /\ calls' = Append(calls, [op |-> "store_alias_mapping", user_id |-> u,
                                   alias_text |-> alias_text, entity_name |-> entity_name,
                                   ok |-> out.ok])
        /\ UNCHANGED <<summaries, entities, chat_events, now, inflight>>
  IN  /\ Len(calls) < MaxCalls
      /\ Done(store_alias_mapping(memories, now, u, alias_text, entity_name, entity_id))

\* time passes between two calls
Tick(days) ==
  /\ now + days <= MaxDays
  /\ now' = now + days
  /\ UNCHANGED <<memories, summaries, entities, chat_events, calls, inflight>>

(***************************************************************************)
(* Direct calls of MemoryService.create_memory                             *)
(***************************************************************************)

CreateSessions == {"s1", "s2"}

CreateTexts == {"Kai Media prefers Friday deliveries", "Kai Media prefers Friday"}

CreateImportances == {30, 90}

NextCreate ==
  \E s \in CreateSessions, k \in {"semantic", "episodic"}, t \in CreateTexts,
     i \in CreateImportances :
    CreateMemory(s, k, t, <<>>, i, None)

SpecCreate == Init /\ [][NextCreate]_vars

\* the last call and the one before it
LastCall == calls[Len(calls)]

PrevCall == calls[Len(calls) - 1]

\* the last two calls were create_memory(s, k, t, importance=i1) and then
\* create_memory(s, k, t, importance=i2), and both returned
RepeatedCreate ==
  /\ Len(calls) >= 2
  /\ LastCall.op = "create_memory" /\ PrevCall.op = "create_memory"
  /\ ~LastCall.raised /\ ~PrevCall.raised
  /\ LastCall.session_id = PrevCall.session_id
  /\ LastCall.kind = PrevCall.kind
  /\ LastCall.text = PrevCall.text

\* one row holds (s, t), both calls returned it, and it carries max(i1, i2)
SingleRowWithMaxImportance ==
  /\ Cardinality({k \in 1..Len(memories) :
                    /\ memories[k].session_id = LastCall.session_id
                    /\ memories[k].text = LastCall.text}) = 1
  /\ LastCall.memory_id = PrevCall.memory_id
  /\ memories[PrevCall.memory_id].importance = Max(PrevCall.importance, LastCall.importance)

\* C1 as stated: for every s, k, t, i1, i2, create_memory(s, k, t, i1)
\* followed by create_memory(s, k, t, i2) leaves exactly one row with
\* session_id = s and text = t, the second call returns the row of the first,
\* and that row's importance is max(i1, i2).
C1_AsStated == RepeatedCreate => SingleRowWithMaxImportance

\* C1, amended: when the first of the two calls inserted a new row, exactly
\* one row has session_id = s and text = t afterwards, the second call
\* returns that row, and its importance is max(i1, i2).
C1_DedupIdempotence == (RepeatedCreate /\ PrevCall.inserted) => SingleRowWithMaxImportance

\* the second call raised the importance of the row the first one inserted
C1_Witness ==
  /\ RepeatedCreate /\ PrevCall.inserted
  /\ LastCall.importance > PrevCall.importance
  /\ memories[LastCall.memory_id].importance = LastCall.importance

(***************************************************************************)
(* Conversations: Chat requests of one user in two sessions                *)
(***************************************************************************)

ChatUsers == {"u1"}

ChatSessions == {"s1", "s2"}

ChatMessages ==
  {"What's the status of Kai's order?", "1", "Kai Media", "Kai's invoice?",
   "Remember: Kai prefers Friday deliveries", "Remember: the office closes at noon"}

NextChat ==
  \E u \in ChatUsers, s \in ChatSessions, m \in ChatMessages, llm \in {"plain", "error"} :
    Chat(u, s, m, llm, 0)

SpecChat == Init /\ [][NextChat]_vars

ChatCalls == {k \in 1..Len(calls) : calls[k].op = "chat"}

\* the requests of call k's session answered before call k: the ones that
\* left a user and an assistant event in the session
AnsweredBefore(k) ==
  {j \in 1..(k - 1) : /\ calls[j].op = "chat"
                      /\ calls[j].session_id = calls[k].session_id
                      /\ ~calls[j].raised}

LastAnswered(k) == CHOOSE j \in AnsweredBefore(k) : \A i \in AnsweredBefore(k) : i <= j

\* when call k arrives the last assistant message of its session is a
\* clarification prompt
PendingClarification(k) ==
  /\ AnsweredBefore(k) # {}
  /\ calls[LastAnswered(k)].context.disambiguation_needed

\* the candidates that prompt enumerates
PromptCandidates(k) == calls[LastAnswered(k)].context.candidate_entities

\* call j answered a clarification prompt and its reply was resolved
ResolvedClarification(j) ==
  /\ PendingClarification(j)
  /\ ~calls[j].raised
  /\ ~calls[j].context.disambiguation_needed
  /\ calls[j].context.selected_entity # None

Names(seq) == [k \in 1..Len(seq) |-> seq[k].name]

\* the messages that mention the short form 'Kai', and the customers that
\* short form matches, in the order of the customers table
KaiMentions == {"What's the status of Kai's order?", "Kai's invoice?"}

KaiCustomers == SelectSeq(customers, LAMBDA c : Contains(Lower(c.name), "kai"))

\* C2: after a clarification turn in which user u's reply r was resolved to
\* entity E, a later Chat message of u whose text equals r is resolved to
\* selected = E with needed = false: no clarification is requested.
C2_AliasRoundTrip ==
  \A j, k \in ChatCalls :
    (/\ j < k
     /\ ResolvedClarification(j)
     /\ calls[k].user_id = calls[j].user_id
     /\ calls[k].message = calls[j].message
     /\ ~PendingClarification(k))
    => /\ ~calls[k].raised
       /\ ~calls[k].context.disambiguation_needed
       /\ calls[k].context.selected_entity # None
       /\ calls[k].context.selected_entity[1].name = calls[j].context.selected_entity[1].name

\* C3: a Chat message, in a session with no pending clarification, that
\* mentions a short form matched by two or more customers gets a response with
\* disambiguation_needed = true whose candidate_entities are all the matching
\* customers in scan order.
C3_AmbiguousMentionFlagged ==
  \A k \in ChatCalls :
    (calls[k].message \in KaiMentions /\ ~PendingClarification(k))
    => /\ ~calls[k].raised
       /\ "disambiguation_needed" \in DOMAIN calls[k].response
       /\ calls[k].response.disambiguation_needed = TRUE
       /\ "candidate_entities" \in DOMAIN calls[k].response
       /\ Names(calls[k].response.candidate_entities) = Names(KaiCustomers)

\* C4: when the last assistant message of the session is a clarification
\* prompt enumerating c1..cn and the next message is the ordinal k, 1 <= k <= n,
\* the request completes without error and selects ck.
C4_OrdinalReplySelects ==
  \A k \in ChatCalls :
    PendingClarification(k) =>
      \A n \in 1..Len(PromptCandidates(k)) :
        calls[k].message = ToString(n)
        => /\ ~calls[k].raised
           /\ calls[k].context.selected_entity # None
           /\ calls[k].context.selected_entity[1].name = PromptCandidates(k)[n].name

\* C5: once a clarification for the mention 'Kai' has been answered by user
\* u, every later Chat message of u containing that mention returns
\* disambiguation_needed = false.
C5_NoSecondClarification ==
  \A j, k \in ChatCalls :
    (/\ j < k
     /\ ResolvedClarification(j)
     /\ calls[LastAnswered(j)].message \in KaiMentions
     /\ calls[k].user_id = calls[j].user_id
     /\ calls[k].message \in KaiMentions)
    => /\ ~calls[k].raised
       /\ ~calls[k].context.disambiguation_needed

\* C6: every Chat request whose message contains 'remember:' (in any case)
\* leaves at least one persisted Memory with kind = semantic and ttl_days =
\* null for that message, whatever entities it mentions and whatever the
\* session history is.
C6_RememberPersistsSemantic ==
  \A k \in ChatCalls :
    Contains(Lower(calls[k].message), "remember:")
    => \E n \in 1..Len(calls[k].context.stored) :
         LET id == calls[k].context.stored[n]
         IN  /\ id \in 1..Len(memories)
             /\ memories[id].kind = "semantic"
             /\ memories[id].ttl_days = None

(***************************************************************************)
(* Chat requests carrying phone numbers                                    *)
(***************************************************************************)

PIIMessages ==
  {"Call me at 555-123-4567", "My number is 5551234567", "hello",
   "555-123-4567 555-123-4567890-123-4567"}

NextPII ==
  \E m \in PIIMessages, llm \in {"plain", "echo", "error"} : Chat("u1", "s1", m, llm, 0)

SpecPII == Init /\ [][NextPII]_vars

\* the matches of phone_pattern in text whose digits a user typed
UserPhoneNumbers(text) ==
  {number \in Range(PhoneFindAllFrom(text, 1)) :
     \E j \in ChatCalls : Contains(calls[j].message, number)}

\* C7: no assistant reply returned by the pipeline and no persisted Memory
\* text contains an unmasked phone number taken from a user message; the
\* message is masked before it reaches entity extraction, the LLM prompt,
\* memory creation and chat-event persistence.
C7_NoPhoneLeak ==
  /\ \A k \in ChatCalls :
       /\ ~calls[k].raised => UserPhoneNumbers(calls[k].response.reply) = {}
       /\ UserPhoneNumbers(calls[k].context.user_message) = {}
  /\ \A i \in DOMAIN memories : UserPhoneNumbers(memories[i].text) = {}
  /\ \A i \in DOMAIN chat_events : UserPhoneNumbers(chat_events[i].content) = {}

(***************************************************************************)
(* Chat requests of two users followed by retrievals                       *)
(***************************************************************************)

\* who chats, in which session, and what they say
RetrieveChats ==
  {<<"u1", "s1", "Remember: the office closes at noon">>,
   <<"u1", "s1", "hello there friend">>,
   <<"u2", "s3", "Remember: the office closes at noon">>}

\* who queries, and from which session
RetrieveQueries == {<<"u1", "s2">>, <<"u2", "s3">>}

\* the kind asked for (NoValue: any) and the limit
RetrieveFilters == {<<NoValue, 1>>, <<NoValue, 10>>, <<"semantic", 10>>}

NextRetrieve ==
  \/ \E c \in RetrieveChats : Chat(c[1], c[2], c[3], "plain", 0)
  \/ \E c \in RetrieveQueries, f \in RetrieveFilters :
       RetrieveMemories(EmbeddingVectors[3], c[1], c[2], f[1], f[2])
  \/ \E c \in RetrieveQueries : GetUserMemories(c[1], RetrieveLimit)

SpecRetrieve == Init /\ [][NextRetrieve]_vars

ChatsOf(u) == {j \in ChatCalls : calls[j].user_id = u}

\* the rows a Chat request of call j created in its own session
CreatedBy(j) ==
  {i \in DOMAIN memories : /\ memories[i].memory_id \in Range(calls[j].context.stored)
                           /\ memories[i].session_id = calls[j].session_id}

ResultIds(call) == {call.result[n].memory_id : n \in 1..Len(call.result)}

\* the retrieval was from another session of the user of Chat request j and
\* returned row i, which that request created
SeenAcrossSessions(i, j) ==
  /\ LastCall.op = "retrieve_memories"
  /\ LastCall.user_id = calls[j].user_id
  /\ LastCall.session_id # calls[j].session_id
  /\ i \in CreatedBy(j)
  /\ memories[i].memory_id \in ResultIds(LastCall)

\* C8: a memory created by a Chat request in session A is never filtered out
\* of a retrieve_memories call issued from another session B of the same
\* user: it is among the results unless it is of another kind than the one
\* asked for or the results are cut at the limit.
C8_CrossSessionVisible ==
  (calls # <<>> /\ LastCall.op = "retrieve_memories")
  => \A j \in ChatsOf(LastCall.user_id) :
       calls[j].session_id # LastCall.session_id
       => \A i \in CreatedBy(j) :
            \/ memories[i].memory_id \in ResultIds(LastCall)
            \/ LastCall.kind # NoValue /\ memories[i].kind # LastCall.kind
            \/ Len(LastCall.result) = LastCall.limit

C8_Witness ==
  /\ calls # <<>>
  /\ \E j \in ChatCalls : \E i \in DOMAIN memories : SeenAcrossSessions(i, j)

\* C9: retrieve_memories and get_user_memories called with user_id = U return
\* only memories created by requests of user U, never a memory created in a
\* session of another user.
C9_RetrievalFiltersByUser ==
  (calls # <<>> /\ LastCall.op \in {"retrieve_memories", "get_user_memories"})
  => \A j \in ChatCalls :
       calls[j].user_id # LastCall.user_id
       => \A i \in CreatedBy(j) : memories[i].memory_id \notin ResultIds(LastCall)

(***************************************************************************)
(* Status queries about a sales order over stored memories                 *)
(***************************************************************************)

ConflictTexts ==
  {"SO-1001 is fulfilled", "so-1001 was Fulfilled", "SO-1001 ships on Friday"}

ConflictImportances == {50, 90}

ConflictQueries == {"Is SO-1001 complete?", "What is the status of SO-1001?"}

ConflictLimits == {1, 10}

NextConflict ==
  \/ \E t \in ConflictTexts, i \in ConflictImportances :
       CreateMemory("s1", "semantic", t, generate_embedding(t), i, None)
  \/ \E q \in ConflictQueries, limit \in ConflictLimits : RetrieveContext(q, "u1", "s2", limit)

SpecConflict == Init /\ [][NextConflict]_vars

DbStatus(order_number) ==
  First(SelectSeq(sales_orders, LAMBDA so : so.so_number = order_number))[1].status

SaysFulfilled(text, order_number) ==
  /\ Contains(Lower(text), Lower(order_number))
  /\ Contains(Lower(text), "fulfilled")

\* the last call is a status query that names the order
StatusQueryAbout(order_number) ==
  /\ calls # <<>>
  /\ LastCall.op = "retrieve_context"
  /\ ~LastCall.result.raised
  /\ ContainsAny(Lower(LastCall.query), status_keywords)
  /\ Contains(LastCall.query, order_number)

InconsistencyReported(order_number) ==
  \E n \in 1..Len(LastCall.result.domain_facts) :
    /\ LastCall.result.domain_facts[n].table = "db_memory_inconsistency"
    /\ LastCall.result.domain_facts[n].data.order_number = order_number

AgingTexts == {"Shipped the albums", "Called the customer"}

AgingTtls == {None, Some(7)}

\* the query embeddings: the one every memory here carries and its opposite
AgingQueries == {<<3, 4>>, <<-3, -4>>}

AgingStep == 40

NextAging ==
  \/ \E t \in AgingTexts, ttl \in AgingTtls :
       CreateMemory("s1", "episodic", t, <<3, 4>>, 50, ttl)
  \/ \E q \in AgingQueries : RetrieveMemories(q, "u1", "s1", NoValue, RetrieveLimit)
  \/ Tick(AgingStep)

SpecAging == Init /\ [][NextAging]_vars

\* the stored row a retrieval result stands for
RowOf(result) == memories[CHOOSE i \in DOMAIN memories : memories[i].memory_id = result.memory_id]

\* created_at + ttl_days lies before the time at
Expired(memory, at) == memory.ttl_days # None /\ memory.created_at + memory.ttl_days[1] < at

\* C11: retrieve_memories never returns an expired memory, that is one whose
\* ttl_days is set and whose created_at + ttl_days is earlier than the time
\* of the call.
C11_NoExpiredReturned ==
  (calls # <<>> /\ LastCall.op = "retrieve_memories")
  => \A n \in 1..Len(LastCall.result) : ~Expired(RowOf(LastCall.result[n]), LastCall.at)

\* C12: of two memories with identical embedding and identical importance,
\* the one with the more recent created_at receives a final retrieval score
\* greater than or equal to the score of the older one, for any query vector.
C12_RecencyMonotone ==
  (calls # <<>> /\ LastCall.op = "retrieve_memories")
  => \A a, b \in 1..Len(LastCall.result) :
       (/\ RowOf(LastCall.result[a]).embedding = RowOf(LastCall.result[b]).embedding
        /\ LastCall.result[a].importance = LastCall.result[b].importance
        /\ LastCall.result[a].created_at >= LastCall.result[b].created_at)
       => ~FracGreater(LastCall.result[b].similarity, LastCall.result[a].similarity)

(***************************************************************************)
(* Chat requests that are served concurrently                              *)
(***************************************************************************)

ConcurrentSessions == {"s1", "s2"}

ConcurrentMessages == {"Remember: the office closes at noon", "What's the status of Kai's order?"}

NextConcurrent ==
  \/ \E s \in ConcurrentSessions, m \in ConcurrentMessages : ChatBegin("u1", s, m)
  \/ \E i \in DOMAIN inflight : ChatEnd(i, "plain", 0)

SpecConcurrent == Init /\ [][NextConcurrent]_vars

\* C13: two Chat requests with the same session_id never run their pipeline
\* stages interleaved: a request performs its first read of the session's
\* state only after every earlier request of the session has persisted its
\* chat events, so no two requests of one session are inside the pipeline.
C13_SessionSerial ==
  \A i, j \in {k \in DOMAIN inflight : inflight[k].op = "chat"} :
    i # j => inflight[i].request.session_id # inflight[j].request.session_id

(***************************************************************************)
(* Chat requests and consolidations of two users                           *)
(***************************************************************************)

SummaryUsers == {"u1", "u2"}

SummaryMessages == {"TC Boiler is NET15", "Marked the boiler task as done"}

NextSummaries ==
  \/ \E u \in SummaryUsers, m \in SummaryMessages : Chat(u, "s1", m, "plain", 0)
  \/ \E u \in SummaryUsers : ConsolidateBegin(u)
  \/ \E i \in DOMAIN inflight : ConsolidateEnd(i)

SpecSummaries == Init /\ [][NextSummaries]_vars

\* C14: after any sequence and any interleaving of Chat and Consolidate
\* operations there is at most one MemorySummary row per (user_id,
\* session_window).
C14_OneSummaryPerKey ==
  \A i, j \in DOMAIN summaries :
    (/\ summaries[i].user_id = summaries[j].user_id
     /\ summaries[i].session_window = summaries[j].session_window)
    => i = j

(***************************************************************************)
(* Alias writes: direct ones and those of clarification replies            *)
(***************************************************************************)

AliasTexts == {"Kai", "kai"}

AliasTargets == {<<"Kai Media", "550e8400-0003">>, <<"Kai Media Europe", "550e8400-0004">>}

AliasMessages == {"What's the status of Kai's order?", "Kai Media"}

NextAlias ==
  \/ \E a \in AliasTexts, e \in AliasTargets : StoreAlias("u1", a, e[1], e[2])
  \/ \E m \in AliasMessages : Chat("u1", "s1", m, "plain", 0)

SpecAlias == Init /\ [][NextAlias]_vars

AliasPrefix == "Alias mapping: '"

AliasRows == {i \in DOMAIN memories : Prefix(memories[i].text, Len(AliasPrefix)) = AliasPrefix}

\* the alias a row maps, as its text spells it
AliasTextOf(row) ==
  SubSeq(row.text, Len(AliasPrefix) + 1, Find(row.text, "' refers to '") - 1)

\* C15: after any sequence of alias writes, direct or by clarification
\* replies, there is at most one alias-mapping row per (user_id,
\* lowercase(alias_text)); every write here is of the one user u1.
C15_OneAliasRowPerKey ==
  \A i, j \in AliasRows :
    Lower(AliasTextOf(memories[i])) = Lower(AliasTextOf(memories[j])) => i = j

\* two alias writes of one user for one key have been made, spelt differently
C15_Witness ==
  \E j, k \in 1..Len(calls) :
    /\ j < k
    /\ calls[j].op = "store_alias_mapping" /\ calls[k].op = "store_alias_mapping"
    /\ calls[j].user_id = calls[k].user_id
    /\ calls[j].alias_text # calls[k].alias_text
    /\ Lower(calls[j].alias_text) = Lower(calls[k].alias_text)

(***************************************************************************)
(* Chat requests whose memories the classifier decides on                  *)
(***************************************************************************)

ClassifyMessages == {"Shipped the albums today", "The client pays by check"}

NextClassify ==
  \E m \in ClassifyMessages, cls \in 0..Len(ProviderClassifications) :
    Chat("u1", "s1", m, "plain", cls)

SpecClassify == Init /\ [][NextClassify]_vars

\* C16: every persisted Memory with kind = semantic has ttl_days = null,
\* whichever path created it, and no persisted Memory has a negative
\* ttl_days.
C16_SemanticHasNoTtl ==
  \A i \in DOMAIN memories :
    /\ memories[i].kind = "semantic" => memories[i].ttl_days = None
    /\ memories[i].ttl_days # None => memories[i].ttl_days[1] >= 0

\* C17: every persisted Memory has 0 <= importance <= 1, and an importance
\* outside [0,1] returned by the classifier is clamped before the memory is
\* stored, so that it never makes the Chat request fail.
C17_ImportanceClamped ==
  /\ \A i \in DOMAIN memories : memories[i].importance \in 0..100
  /\ \A k \in ChatCalls : ~calls[k].raised

(***************************************************************************)
(* Chat requests served while every call to the provider fails             *)
(***************************************************************************)

FailureSessions == {"s1", "s2"}

FailureMessages ==
  {"What's the status of Kai's order?", "1", "Remember: Kai prefers Friday deliveries",
   "Please reschedule the work order"}

NextLLMFailure ==
  \E s \in FailureSessions, m \in FailureMessages : Chat("u1", s, m, "error", 0)

SpecLLMFailure == Init /\ [][NextLLMFailure]_vars

\* the requests that called the provider: the ones that reached step 10 of
\* the normal flow with a message the built-in reschedule reply does not
\* answer
LLMCalled(k) ==
  /\ calls[k].op = "chat"
  /\ ~calls[k].context.disambiguation_needed
  /\ calls[k].context.llm_response # NoValue
  /\ ~_is_reschedule_request(calls[k].message)

\* the turn of call k is in chat_events: its user event directly followed by
\* its assistant event
TurnPersisted(k) ==
  \E p \in 1..(Len(chat_events) - 1) :
    /\ chat_events[p] = ChatEvent(calls[k].session_id, "user", calls[k].message)
    /\ chat_events[p + 1] =
         ChatEvent(calls[k].session_id, "assistant", calls[k].response.reply)

NextConsolidate ==
  \/ \E u \in SummaryUsers, m \in SummaryMessages : Chat(u, "s1", m, "plain", 0)
  \/ \E u \in SummaryUsers : Consolidate(u)

SpecConsolidate == Init /\ [][NextConsolidate]_vars

\* C19: a POST /consolidate/ request for which consolidate_memories returns
\* no summary ends in HTTP 404 (NotFound), not in 500 and not in success,
\* and creates no MemorySummary row.
C19_NothingToConsolidateIs404 ==
  \A k \in 1..Len(calls) :
    calls[k].op = "consolidate" /\ calls[k].not_found =>
      /\ calls[k].status_code = 404
      /\ calls[k].created = 0

(***************************************************************************)
(* Chat requests that ask to reschedule a customer's work order            *)
(***************************************************************************)

RescheduleCustomers == {"Kai Media", "TC Boiler"}

RescheduleMessages ==
  {"Please reschedule Kai Media's pick-pack work order to Friday; keep Alex.",
   "Please reschedule TC Boiler's work order to Friday.",
   "Reschedule Kai Media to Friday"}

NextReschedule ==
  \E s \in {"s1", "s2"}, m \in RescheduleMessages : Chat("u1", s, m, "plain", 0)

SpecReschedule == Init /\ [][NextReschedule]_vars

\* the customers a message names
CustomersNamed(message) == {c \in RescheduleCustomers : Contains(Lower(message), Lower(c))}

\* the memories call k persisted
StoredBy(k) == {memories[i] : i \in {j \in DOMAIN memories :
                                      \E p \in DOMAIN calls[k].context.stored :
                                        calls[k].context.stored[p] = memories[j].memory_id}}

\* C20: a Chat request whose message contains 'reschedule', 'friday' and a
\* customer name persists two memories for the turn: one episodic memory
\* about the reschedule and one semantic memory with text '<Customer>
\* prefers Friday; align WO scheduling accordingly.'.
C20_RescheduleStoresTwoMemories ==
  \A k \in ChatCalls :
    /\ ~calls[k].raised
    /\ Contains(Lower(calls[k].message), "reschedule")
    /\ Contains(Lower(calls[k].message), "friday")
    /\ CustomersNamed(calls[k].message) # {}
    => /\ Cardinality(StoredBy(k)) = 2
       /\ \E e \in StoredBy(k) : /\ e.kind = "episodic"
                                 /\ Contains(Lower(e.text), "reschedule")
       /\ \E m \in StoredBy(k), c \in CustomersNamed(calls[k].message) :
            /\ m.kind = "semantic"
            /\ m.text = c \o " prefers Friday; align WO scheduling accordingly."

(***************************************************************************)
(* Approximate deduplication of semantic memories                          *)
(***************************************************************************)

\* the similarity of two texts: word-set Jaccard similarity above 0.8, or
\* one lower-cased text containing the other when both are longer than 20
\* characters
SimilarTexts(a, b) ==
  LET wa == Range(Split(Lower(a)))
      wb == Range(Split(Lower(b)))
  IN  \/ /\ wa \cup wb # {}
         /\ 10 * Cardinality(wa \cap wb) > 8 * Cardinality(wa \cup wb)
      \/ /\ Len(a) > 20 /\ Len(b) > 20
         /\ (Contains(Lower(a), Lower(b)) \/ Contains(Lower(b), Lower(a)))

\* the semantic rows stored before the last call that are similar to its text
SimilarStoredBefore ==
  {j \in DOMAIN memories :
     /\ ~(LastCall.inserted /\ j = LastCall.memory_id)
     /\ memories[j].kind = "semantic"
     /\ SimilarTexts(LastCall.text, memories[j].text)}

\* C21: create_memory with kind = semantic returns an already stored
\* semantic memory (of any session) instead of inserting a new row whenever
\* the word-set Jaccard similarity between the new text and that memory's
\* text exceeds 0.8, or one of the two lower-cased texts (both longer than 20
\* characters) contains the other.
C21_SemanticDedupBySimilarity ==
  (/\ Len(calls) >= 1
   /\ LastCall.op = "create_memory"
   /\ LastCall.kind = "semantic"
   /\ ~LastCall.raised
   /\ SimilarStoredBefore # {})
  => /\ ~LastCall.inserted
     /\ LastCall.memory_id \in SimilarStoredBefore

(***************************************************************************)
(* Scoring of the candidates of a mention                                  *)
(***************************************************************************)

\* the candidates of call k's message with the confidence assigned at
\* extraction
ExtractedBy(k) ==
  extract_entities(memories, calls[k].message, calls[k].session_id, calls[k].user_id)

\* exact = 1.0, fuzzy = 0.8, other = 0.5, in hundredths
ConfidenceScore(entity) ==
  CASE entity.external_ref.confidence = "exact" -> 100
    [] entity.external_ref.confidence = "fuzzy" -> 80
    [] OTHER -> 50

\* candidate i of seq scores highest, and by more than 0.05 over every other
ClearTop(seq, i) ==
  \A j \in 1..Len(seq) : j # i => ConfidenceScore(seq[i]) - ConfidenceScore(seq[j]) > 5

\* call k met two or more customer candidates and no pending clarification
ScoredCall(k) ==
  /\ ~calls[k].raised
  /\ ~PendingClarification(k)
  /\ Len(ExtractedBy(k)) >= 2
  /\ \A i \in 1..Len(ExtractedBy(k)) : ExtractedBy(k)[i].type = "customer"

\* C22: with two or more candidates and no pending clarification, the
\* candidates are scored exact = 1.0, fuzzy = 0.8, other = 0.5 by the
\* confidence assigned at extraction, and the top candidate is selected
\* without a clarification iff top1 - top2 > 0.05; a message that matches one
\* customer exactly and another only fuzzily is resolved to the exact one.
C22_AutoSelectByConfidence ==
  \A k \in ChatCalls :
    ScoredCall(k) =>
      /\ \A i \in 1..Len(ExtractedBy(k)) :
           ClearTop(ExtractedBy(k), i)
           => /\ ~calls[k].context.disambiguation_needed
              /\ calls[k].context.selected_entity # None
              /\ calls[k].context.selected_entity[1].name = ExtractedBy(k)[i].name
      /\ (\A i \in 1..Len(ExtractedBy(k)) : ~ClearTop(ExtractedBy(k), i))
           => calls[k].context.disambiguation_needed

(***************************************************************************)
(* Clarification turns: a mention of 'Kai' and the replies to the prompt   *)
(***************************************************************************)

ClarifySessions == {"s1", "s2"}

ClarifyMessages ==
  {"What's the status of Kai's order?", "Kai Media Europe", "2", "Thanks a lot for the help"}

NextClarify ==
  \E s \in ClarifySessions, m \in ClarifyMessages : Chat("u1", s, m, "plain", 0)

SpecClarify == Init /\ [][NextClarify]_vars

\* C23: when the reply to a clarification prompt is exactly the name of one
\* of the listed candidates, that candidate is the one selected, also when
\* another candidate's name is a substring of the reply.
C23_NameReplySelects ==
  \A k \in ChatCalls :
    PendingClarification(k) =>
      \A n \in 1..Len(PromptCandidates(k)) :
        calls[k].message = PromptCandidates(k)[n].name
        => /\ ~calls[k].raised
           /\ calls[k].context.selected_entity # None
           /\ calls[k].context.selected_entity[1].name = PromptCandidates(k)[n].name

\* the step is a Chat request that ended in the clarification branch
ClarificationStep ==
  /\ Len(calls') = Len(calls) + 1
  /\ calls'[Len(calls')].op = "chat"
  /\ ~calls'[Len(calls')].raised
  /\ calls'[Len(calls')].context.disambiguation_needed

\* C24: a Chat request that ends in the clarification branch appends exactly
\* two ChatEvents to its session (the user message, then the clarification
\* prompt) and stops: it makes no LLM call and creates or updates no Memory
\* row and no MemorySummary row.
C24_ClarificationFrame ==
  [][ClarificationStep =>
       /\ chat_events' =
            chat_events \o << ChatEvent(calls'[Len(calls')].session_id, "user",
                                        calls'[Len(calls')].message),
                              ChatEvent(calls'[Len(calls')].session_id, "assistant",
                                        _build_clarification_prompt(
                                          calls'[Len(calls')].context.candidate_entities)) >>
       /\ calls'[Len(calls')].response.reply = chat_events'[Len(chat_events')].content
       /\ calls'[Len(calls')].context.llm_response = NoValue
       /\ calls'[Len(calls')].context.stored = <<>>
       /\ memories' = memories
       /\ summaries' = summaries]_vars

\* a clarification was requested in a session that already holds a turn,
\* with memories in the store
C24_Witness ==
  /\ Len(calls) >= 2
  /\ LastCall.op = "chat" /\ ~LastCall.raised
  /\ LastCall.context.disambiguation_needed
  /\ PrevCall.session_id = LastCall.session_id
  /\ memories # <<>>
  /\ Len(chat_events) = 4

(***************************************************************************)
(* The chat_events table under Chat requests and POST /consolidate/        *)
(***************************************************************************)

EventMessages ==
  {"What's the status of Kai's order?", "1", "Remember: the office closes at noon"}

NextEvents ==
  \/ \E s \in {"s1", "s2"}, m \in EventMessages : Chat("u1", s, m, "plain", 0)
  \/ Consolidate("u1")

SpecEvents == Init /\ [][NextEvents]_vars

\* a step in which a Chat request returned a response
AnsweredStep ==
  /\ Len(calls') = Len(calls) + 1
  /\ calls'[Len(calls')].op = "chat"
  /\ ~calls'[Len(calls')].raised

\* C25: ChatEvents are append-only: every step leaves the events that exist
\* as they are and in place, and a Chat request that returns a response
\* appends exactly two events of its session, a user event followed by an
\* assistant event
C25_ChatEventsAppendOnly ==
  [][/\ Len(chat_events') >= Len(chat_events)
     /\ SubSeq(chat_events', 1, Len(chat_events)) = chat_events
     /\ AnsweredStep =>
          /\ Len(chat_events') = Len(chat_events) + 2
          /\ chat_events'[Len(chat_events) + 1].role = "user"
          /\ chat_events'[Len(chat_events) + 2].role = "assistant"
          /\ \A k \in {1, 2} :
               chat_events'[Len(chat_events) + k].session_id
                 = calls'[Len(calls')].session_id]_vars

\* two answered requests of one session with a consolidation request between
\* them: four events, user and assistant alternating
C25_Witness ==
  /\ Len(calls) = 3
  /\ calls[1].op = "chat" /\ ~calls[1].raised
  /\ calls[2].op = "consolidate"
  /\ calls[3].op = "chat" /\ ~calls[3].raised
  /\ calls[3].session_id = calls[1].session_id
  /\ calls[3].context.stored # <<>>
  /\ [k \in 1..Len(chat_events) |-> chat_events[k].role]
       = <<"user", "assistant", "user", "assistant">>

(***************************************************************************)
(* consolidate_memories without force over memories of different ages      *)
(***************************************************************************)

StaleTexts == {"Remember: the office closes at noon", "The office has two doors"}

StaleImportances == {50, 90}

NextStale ==
  \/ \E t \in StaleTexts, i \in StaleImportances :
       CreateMemory("s1", "semantic", t, <<3, 4>>, i, None)
  \/ ConsolidateMemories("u1", FALSE)
  \/ Tick(AgingStep)

SpecStale == Init /\ [][NextStale]_vars

\* the stored memories that were stale preferences when the last call ran
StalePreferences ==
  {k \in DOMAIN memories : _is_stale_preference(memories[k], LastCall.at)}

\* C26: a consolidation requested without force is triggered whenever the
\* store holds a semantic memory that mentions a preference and is older than
\* 90 days or has importance < 0.7
C26_StalePreferenceTriggers ==
  (/\ Len(calls) >= 1
   /\ LastCall.op = "consolidate_memories"
   /\ ~LastCall.force
   /\ StalePreferences # {})
  => LastCall.triggered

(***************************************************************************)
(* Status queries about an invoice over stored memories                    *)
(***************************************************************************)

InvoiceTexts == {"INV-1009 is paid", "INV-1009 was paid and is done", "INV-1009 is due Friday"}

InvoiceQueries == {"What is the status of INV-1009?", "Is INV-1009 done?"}

NextInvoice ==
  \/ \E t \in InvoiceTexts, i \in ConflictImportances :
       CreateMemory("s1", "semantic", t, generate_embedding(t), i, None)
  \/ \E q \in InvoiceQueries, limit \in ConflictLimits :
       RetrieveContext(q, "u1", "s2", limit)

SpecInvoice == Init /\ [][NextInvoice]_vars

InvoiceStatus(invoice_number) ==
  First(SelectSeq(invoices, LAMBDA inv : inv.invoice_number = invoice_number))[1].status

SaysPaid(text, invoice_number) ==
  /\ Contains(Lower(text), Lower(invoice_number))
  /\ Contains(Lower(text), "paid")

\* C27: a status query naming INV-1009, whose DB status is open, returns a
\* db_memory_inconsistency fact for the invoice whenever a memory saying the
\* invoice is paid is among the memories the call retrieved
C27_InvoiceInconsistencyReported ==
  (/\ StatusQueryAbout("INV-1009")
   /\ InvoiceStatus("INV-1009") = "open"
   /\ \E n \in 1..Len(LastCall.result.memories) :
        SaysPaid(LastCall.result.memories[n].text, "INV-1009"))
  => InconsistencyReported("INV-1009")

(***************************************************************************)
(* retrieve_context over memories that get status annotations              *)
(***************************************************************************)

AnnotateTexts ==
  {"SO-1001 is fulfilled and done", "Kai said 120 days ago he prefers Friday",
   "SO-1001 ships on Friday"}

NextAnnotate ==
  \/ \E t \in AnnotateTexts, i \in ConflictImportances :
       CreateMemory("s1", "semantic", t, generate_embedding(t), i, None)
  \/ \E q \in ConflictQueries, limit \in ConflictLimits : RetrieveContext(q, "u1", "s2", limit)

SpecAnnotate == Init /\ [][NextAnnotate]_vars

\* a step in which retrieve_context returned
RetrieveContextStep ==
  /\ Len(calls') = Len(calls) + 1
  /\ calls'[Len(calls')].op = "retrieve_context"

\* C28: retrieve_context performs no persisted write: the Memory rows are
\* the same before and after the call, whatever annotations the returned
\* memory texts carry and whatever facts the call emits
C28_RetrieveContextWritesNothing ==
  [][RetrieveContextStep => memories' = memories /\ summaries' = summaries]_vars

\* the returned memories whose text differs from the text of their row
AnnotatedResults ==
  {n \in 1..Len(LastCall.result.memories) :
     \E k \in DOMAIN memories :
       /\ memories[k].memory_id = LastCall.result.memories[n].memory_id
       /\ memories[k].text # LastCall.result.memories[n].text
       /\ Contains(LastCall.result.memories[n].text, " [Note: ")}

\* a call that returned an annotated memory and a db_memory_inconsistency
\* fact asking to mark memories for decay
C28_Witness ==
  /\ calls # <<>>
  /\ LastCall.op = "retrieve_context"
  /\ AnnotatedResults # {}
  /\ \E n \in 1..Len(LastCall.result.domain_facts) :
       /\ LastCall.result.domain_facts[n].table = "db_memory_inconsistency"
       /\ LastCall.result.domain_facts[n].data.action = "mark_memory_for_decay"
  /\ \A k \in DOMAIN memories : ~Contains(memories[k].text, "[Note: ")

(***************************************************************************)
(* The texts of the memories written while Chat requests are served, by    *)
(* the pipeline and by the POST /chat/ route                               *)
(***************************************************************************)

TextMessages ==
  {"hello there, how are you?", "Marked the boiler task as done",
   "Call me at 555-123-4567"}

NextTexts ==
  \/ \E m \in TextMessages : Chat("u1", "s1", m, "echo", 0)
  \/ \E m \in TextMessages : PostChat("u1", "s1", m, "echo")

SpecTexts == Init /\ [][NextTexts]_vars

\* a step in which a Chat request was served, by either handler
ChatServedStep ==
  /\ Len(calls') = Len(calls) + 1
  /\ calls'[Len(calls')].op \in {"chat", "post_chat"}

\* the rows the step inserted or whose text it changed
WrittenRows ==
  {k \in DOMAIN memories' : k > Len(memories) \/ memories'[k].text # memories[k].text}

\* the user message of the request the step served, as the handler keeps it:
\* masked by step 1.5 of the pipeline
ServedMessage ==
  IF calls'[Len(calls')].op = "chat" THEN calls'[Len(calls')].context.user_message
  ELSE calls'[Len(calls')].message

\* the reply of the LLM to the request the step served
ServedReply ==
  IF calls'[Len(calls')].op = "chat" THEN calls'[Len(calls')].context.llm_response
  ELSE calls'[Len(calls')].llm_response

\* text as create_memory stores it for the request the step served: with the
\* PII the pipeline found masked
AsStored(text) ==
  IF calls'[Len(calls')].op = "chat" /\ calls'[Len(calls')].context.pii_matches # <<>>
  THEN create_masked_memory_text(text, calls'[Len(calls')].context.pii_matches)
  ELSE text

ImplicitPreferenceSentences ==
  {"Kai Media prefers Friday; align WO scheduling accordingly.",
   "Kai Media prefers Friday deliveries for all shipments.",
   "TC Boiler prefers Friday deliveries for all shipments.",
   "TC Boiler is NET15; align payment terms accordingly.",
   "Kai Media is NET15; align payment terms accordingly."}

\* the sentences of the LLM reply that extract_memories_from_response keeps
ReplySentences(reply) ==
  IF reply = NoValue THEN {}
  ELSE {reply} \cup {d.text : d \in Range(extract_memories_from_response(reply))}

SelectedTurn(k) ==
  /\ calls[k].op = "chat"
  /\ ~calls[k].raised
  /\ calls[k].context.processing_mode = "full"
  /\ ~calls[k].context.disambiguation_needed
  /\ calls[k].context.selected_entity # None

\* the customers row of an entity among the facts
HasPrimaryFact(facts, entity) ==
  \E n \in 1..Len(facts) :
    /\ facts[n].table = "customers"
    /\ facts[n].id = entity.external_ref.id

\* the candidates of the turn: the entities its message named and, for a
\* reply to a clarification, the candidates the prompt listed
CandidatesOf(k) ==
  Range(calls[k].context.entities)
  \cup (IF PendingClarification(k) THEN Range(PromptCandidates(k)) ELSE {})

\* C30: in a full-mode normal-flow turn whose disambiguation selected E,
\* used_domain_facts holds the customers fact of E and no fact of a
\* candidate that was not selected
C30_FactsOfSelectedEntity ==
  \A k \in DOMAIN calls :
    SelectedTurn(k) =>
      LET E == calls[k].context.selected_entity[1]
          facts == calls[k].response.used_domain_facts
      IN  /\ HasPrimaryFact(facts, E)
          /\ \A c \in CandidatesOf(k) :
               c.external_ref.id # E.external_ref.id => ~HasPrimaryFact(facts, c)

====
